---- MODULE Spec2Model ----
(***************************************************************************)
(* PQ-Aggregate: Merkle commitment over public keys, threshold signing,    *)
(* proof aggregation and proof verification.                               *)
(*                                                                         *)
(* Byte strings are sequences of cells.  A cell is a sequence of integers: *)
(*   <<b>>, 0 <= b <= 255     a concrete byte                              *)
(*   <<-3, k>> \o id          byte k (0..31) of the 32-byte value id       *)
(*   <<-5, k>>                the public-key encoding of keypair k         *)
(*   <<-6, k>>                the secret-key encoding of keypair k         *)
(*   <<-4, k, n>> \o t        an ML-DSA signature by keypair k over the    *)
(*                            message whose token form t has length n      *)
(* A 32-byte value id is                                                   *)
(*   <<-1, n>> \o t           the SHA3-256 digest of the byte string whose *)
(*                            token form t has length n                    *)
(*   <<-2, k>>                32 bytes number k drawn at random            *)
(* SHA3-256 is collision free: distinct byte strings have distinct token   *)
(* forms, hence distinct digests.                                          *)
(***************************************************************************)
EXTENDS Integers, Sequences, FiniteSets, TLC

\* Merkle tree session: one tree, one proof request, one change by the caller
VARIABLES m_pc, m_leaves, m_tree, m_req, m_proof, m_root, m_tampered, m_log

mvars == <<m_pc, m_leaves, m_tree, m_req, m_proof, m_root, m_tampered, m_log>>

\* Signing session: setup, aggregate_sign, aggregate_proofs, verification
VARIABLES p_pc,        \* position of the session
          p_rng,       \* number of random draws made (key pairs, nonces)
          c_sks, c_pks, c_root,         \* what setup returned
          s_msg, s_threshold,           \* what aggregate_sign was called with
          h_sigs, h_proofs,             \* what aggregate_sign returned
          w_sigs, w_proofs, w_root, w_msg, w_pks,  \* arguments held for aggregate_proofs
          tampers,     \* number of changes the caller made to the arguments
          arg_changed, \* whether the caller changed w_root, w_msg or w_pks
          agg,         \* the last aggregate_proofs call and its result
          zk, zk_origin,                \* the proof held by the verifier
          v_log,       \* verify calls on zk, in order
          call         \* the last call of another verification function

pvars == <<p_pc, p_rng, c_sks, c_pks, c_root, s_msg, s_threshold, h_sigs, h_proofs,
           w_sigs, w_proofs, w_root, w_msg, w_pks, tampers, arg_changed,
           agg, zk, zk_origin, v_log, call>>

\* Calls of the library's other entry points: the last call, its arguments
\* and what it returned
VARIABLES f_call

fvars == <<f_call>>

\* Secret-key memory while signing
VARIABLES k_pc,        \* position inside aggregate_sign / sign_single
          k_call,      \* the signing call in progress and its loop index
          k_sks,       \* the SecretKey values: their bytes and scope
          k_stack      \* the locals of sign_with_dilithium: bytes and scope

kvars == <<k_pc, k_call, k_sks, k_stack>>

\* CausalGuardRuntime: the API-level maps, the logger, and what the runtime
\* has asked its signature orchestrator and blockchain adapter to do
VARIABLES r_pc,          \* "new" until CausalGuardRuntime::new has run
          r_engine,      \* the policies the PolicyEngine was built with
          r_wallet_key,  \* whether the wallet's key is in the environment
          r_logger,      \* last_nonce, last_timestamp and the logged events
          r_status,      \* action_states
          r_orch,        \* orchestrator.states
          r_rate,        \* rate_limits
          r_idem,        \* idempotency_cache
          r_ret,         \* what the last API call returned
          r_proposed,    \* ids a successful propose_action returned
          r_cleared,     \* ids a policy evaluation found compliant
          r_sign_asked,  \* ids collect_signatures was called for
          r_submit_asked,\* ids submit_unified_proof was called for
          r_updates        \* number of API calls that changed something

rvars == <<r_pc, r_engine, r_wallet_key, r_logger, r_status, r_orch, r_rate, r_idem,
           r_ret, r_proposed, r_cleared, r_sign_asked, r_submit_asked, r_updates>>

\* SolanaDevnetAdapter::check_rate_limit called from several threads
VARIABLES TX_COUNT,      \* the AtomicU32
          LAST_RESET,    \* the Instant inside the mutex, in windows of 60 seconds
          t_clock,       \* Instant::now(), in windows of 60 seconds
          t_lock,        \* the thread holding the mutex guard, 0 for none
          t_pc,          \* each thread's position in check_rate_limit
          t_now,         \* each thread's local now
          t_ret,         \* each thread's last result
          t_calls,       \* calls started
          t_oks_window,  \* Ok results since LAST_RESET was last written
          t_oks_store    \* Ok results since TX_COUNT was last stored

tvars == <<TX_COUNT, LAST_RESET, t_clock, t_lock, t_pc, t_now, t_ret, t_calls,
           t_oks_window, t_oks_store>>

xvars == <<kvars, rvars, tvars>>

vars == <<mvars, pvars, fvars, xvars>>

\* ------------------------------------------------------------------ bounds
MaxLeaves == 3
MaxN == 3
MaxTamper == 2
MaxVerify == 2
MaxValidators == 1600

\* ------------------------------------------------------- program constants
HashLen == 32

\* ------------------------------------------------------------- byte model
Byte(b) == <<b>>

Digest(id) == [k \in 1..HashLen |-> <<-3, k - 1>> \o id]

ZeroHash == [k \in 1..HashLen |-> <<0>>]

RandomBytes32(k) == Digest(<<-2, k>>)

DigestId(c) == SubSeq(c, 3, Len(c))

IsDigestRun(bytes, i) ==
    /\ i >= 1
    /\ bytes[i][1] = -3
    /\ bytes[i][2] = 0
    /\ i + HashLen - 1 <= Len(bytes)
    /\ \A j \in 0..(HashLen - 1) :
          /\ bytes[i + j][1] = -3
          /\ bytes[i + j][2] = j
          /\ [bytes[i + j] EXCEPT ![2] = 0] = bytes[i]

RunStarts(bytes) == {i \in 1..Len(bytes) : IsDigestRun(bytes, i)}

\* the tokens cell i contributes: a whole 32-byte value is one id, written
\* where it starts
TokenAt(bytes, starts, i) ==
    IF i \in starts THEN DigestId(bytes[i])
    ELSE IF bytes[i][1] = -3 /\ (i - bytes[i][2]) \in starts THEN <<>>
    ELSE bytes[i]

RECURSIVE TokensFrom(_, _, _, _)
TokensFrom(bytes, starts, lo, hi) ==
    IF lo > hi THEN <<>>
    ELSE IF lo = hi THEN TokenAt(bytes, starts, lo)
    ELSE LET mid == (lo + hi) \div 2
         IN TokensFrom(bytes, starts, lo, mid) \o TokensFrom(bytes, starts, mid + 1, hi)

Tokens(bytes) == TokensFrom(bytes, RunStarts(bytes), 1, Len(bytes))

RECURSIVE Pow(_, _)
Pow(b, e) == IF e = 0 THEN 1 ELSE b * Pow(b, e - 1)

RECURSIVE le_bytes(_, _)
le_bytes(v, w) == IF w = 0 THEN <<>> ELSE <<Byte(v % 256)>> \o le_bytes(v \div 256, w - 1)

\* ------------------------------------------------------------------ utils
sha3_256(data) == LET t == Tokens(data) IN Digest(<<-1, Len(t)>> \o t)

hash_pair_left_only(left, right) == sha3_256(left)

hash_pair(left, right) == sha3_256(left \o right)

RECURSIVE Pow2From(_, _)
Pow2From(p, n) == IF p >= n THEN p ELSE Pow2From(2 * p, n)

next_power_of_two(n) == Pow2From(1, n)

\* nodes[i + 1] is the code's nodes[i]
RECURSIVE BuildInternal(_, _)
BuildInternal(nodes, i) ==
    IF i < 0 THEN nodes
    ELSE BuildInternal(
             [nodes EXCEPT ![i + 1] = hash_pair(nodes[2 * i + 2], nodes[2 * i + 3])],
             i - 1)

from_leaves_unpadded(leaves) ==
    LET num_leaves == Len(leaves) IN
    IF num_leaves = 0
    THEN [nodes |-> <<ZeroHash>>, num_leaves |-> 0]
    ELSE LET padded_size == next_power_of_two(num_leaves)
             total_nodes == 2 * padded_size - 1
             leaf_start  == padded_size - 1
             placed == [k \in 1..total_nodes |->
                          IF k > leaf_start /\ k - leaf_start <= num_leaves
                          THEN leaves[k - leaf_start]
                          ELSE IF k > leaf_start THEN leaves[1] ELSE ZeroHash]
         IN [nodes |-> BuildInternal(placed, leaf_start - 1),
             num_leaves |-> num_leaves]

from_leaves(leaves) ==
    LET num_leaves == Len(leaves) IN
    IF num_leaves = 0
    THEN [nodes |-> <<ZeroHash>>, num_leaves |-> 0]
    ELSE LET padded_size == next_power_of_two(num_leaves)
             padded_leaves == [k \in 1..padded_size |->
                                 IF k <= num_leaves THEN leaves[k] ELSE ZeroHash]
             total_nodes == 2 * padded_size - 1
             leaf_start  == padded_size - 1
             placed == [k \in 1..total_nodes |->
                          IF k > leaf_start THEN padded_leaves[k - leaf_start]
                          ELSE ZeroHash]
         IN [nodes |-> BuildInternal(placed, leaf_start - 1),
             num_leaves |-> num_leaves]

root(tree) == IF Len(tree.nodes) > 0 THEN tree.nodes[1] ELSE ZeroHash

NoneProof == [is_some |-> FALSE, siblings |-> <<>>, leaf_index |-> 0,
              leaf_hash |-> ZeroHash]

MerkleProof_new(siblings, leaf_index, leaf_hash) ==
    [is_some |-> TRUE, siblings |-> siblings, leaf_index |-> leaf_index,
     leaf_hash |-> leaf_hash]

RECURSIVE ProveWalk(_, _, _)
ProveWalk(nodes, node_index, siblings) ==
    IF node_index > 0
    THEN LET sibling_index == IF node_index % 2 = 1 THEN node_index + 1
                              ELSE node_index - 1
             pushed == IF sibling_index < Len(nodes)
                       THEN Append(siblings, nodes[sibling_index + 1])
                       ELSE siblings
         IN ProveWalk(nodes, (node_index - 1) \div 2, pushed)
    ELSE siblings

prove_off_by_one(tree, leaf_index) ==
    IF leaf_index > tree.num_leaves
    THEN NoneProof
    ELSE LET padded_size == next_power_of_two(tree.num_leaves)
             leaf_start  == padded_size - 1
             node_index  == leaf_start + leaf_index
         IN IF node_index + 1 > Len(tree.nodes) THEN NoneProof
            ELSE MerkleProof_new(ProveWalk(tree.nodes, node_index, <<>>),
                                 leaf_index, tree.nodes[node_index + 1])

prove(tree, leaf_index) ==
    IF leaf_index >= tree.num_leaves
    THEN NoneProof
    ELSE LET padded_size == next_power_of_two(tree.num_leaves)
             leaf_start  == padded_size - 1
             node_index  == leaf_start + leaf_index
             leaf_hash   == tree.nodes[node_index + 1]
         IN MerkleProof_new(ProveWalk(tree.nodes, node_index, <<>>),
                            leaf_index, leaf_hash)

RECURSIVE VerifyWalk(_, _, _, _)
VerifyWalk(current_hash, index, siblings, k) ==
    IF k > Len(siblings) THEN current_hash
    ELSE VerifyWalk(IF index % 2 = 0
                    THEN hash_pair(current_hash, siblings[k])
                    ELSE hash_pair(siblings[k], current_hash),
                    index \div 2, siblings, k + 1)

verify_proof(root_hash, proof) ==
    VerifyWalk(proof.leaf_hash, proof.leaf_index, proof.siblings, 1) = root_hash

from_public_keys(public_keys) ==
    from_leaves([k \in 1..Len(public_keys) |-> sha3_256(public_keys[k].bytes)])

\* ------------------------------------------------------------------ types
SecretKey_from_bytes(bytes, index) == [bytes |-> bytes, index |-> index]

PublicKey_from_bytes(bytes, index) == [bytes |-> bytes, index |-> index]

Signature_new(bytes, signer_index, nonce) ==
    [bytes |-> bytes, signer_index |-> signer_index, nonce |-> nonce]

ZKSNARKProof_new(proof_bytes, num_signatures, public_inputs_hash) ==
    [proof_bytes |-> proof_bytes, num_signatures |-> num_signatures,
     public_inputs_hash |-> public_inputs_hash]

SuperProof_new(proof_bytes, batch_hashes, total_signatures) ==
    [proof_bytes |-> proof_bytes, batch_hashes |-> batch_hashes,
     total_signatures |-> total_signatures]

num_batches(super_proof) == Len(super_proof.batch_hashes)

RotationProof_new(old_root, new_root, proof, epoch) ==
    [old_root |-> old_root, new_root |-> new_root, proof |-> proof, epoch |-> epoch]

\* ----------------------------------------------------- ML-DSA (pqc_dilithium)
Keypair_generate(k) == [public |-> << <<-5, k>> >>, secret |-> << <<-6, k>> >>]

\* The key that signs.  sign_with_dilithium copies the first
\* min(len, SECRETKEYBYTES) bytes of the secret key into a zeroed array, so
\* bytes after a whole key are dropped; a generated key is one cell that
\* stands for its SECRETKEYBYTES bytes.  Anything that does not start with a
\* whole generated key is the key of no generated public key (0).
SecretKeyId(bytes) ==
    IF Len(bytes) >= 1 THEN (IF bytes[1][1] = -6 THEN bytes[1][2] ELSE 0) ELSE 0

Keypair_sign(secret_bytes, msg) ==
    LET t == Tokens(msg) IN << <<-4, SecretKeyId(secret_bytes), Len(t)>> \o t >>

pqc_dilithium_verify(sig_bytes, msg, pk_bytes) ==
    /\ Len(sig_bytes) = 1
    /\ Len(pk_bytes) = 1
    /\ sig_bytes[1][1] = -4
    /\ pk_bytes[1][1] = -5
    /\ sig_bytes[1][2] = pk_bytes[1][2]
    /\ sig_bytes[1][2] > 0
    /\ LET t == Tokens(msg)
       IN SubSeq(sig_bytes[1], 3, Len(sig_bytes[1])) = <<Len(t)>> \o t

\* ----------------------------------------------------------------- keygen
setup(n, rng0) ==
    IF n = 0
    THEN [secret_keys |-> <<>>, public_keys |-> <<>>, pk_root |-> ZeroHash]
    ELSE LET secret_keys == [i \in 1..n |->
                 SecretKey_from_bytes(Keypair_generate(rng0 + i).secret, i - 1)]
             public_keys == [i \in 1..n |->
                 PublicKey_from_bytes(Keypair_generate(rng0 + i).public, i - 1)]
         IN [secret_keys |-> secret_keys, public_keys |-> public_keys,
             pk_root |-> root(from_public_keys(public_keys))]

\* ---------------------------------------------------------------- signing
Min(a, b) == IF a < b THEN a ELSE b

sign_with_dilithium(sk, pk, msg) == Keypair_sign(sk.bytes, msg)

verify_single(pk, msg, sig) == pqc_dilithium_verify(sig.bytes, msg, pk.bytes)

RECURSIVE SignLoop(_, _, _, _, _, _, _, _)
SignLoop(i, t, sks, pks, msg, merkle_tree, rng0, acc) ==
    IF i >= t THEN acc
    ELSE LET nonce == RandomBytes32(rng0 + i + 1)
             sig_bytes == sign_with_dilithium(sks[i + 1], pks[i + 1], msg)
             signature == Signature_new(sig_bytes, i, nonce)
             proof == prove(merkle_tree, i)
         IN SignLoop(i + 1, t, sks, pks, msg, merkle_tree, rng0,
                     [signatures |-> Append(acc.signatures, signature),
                      proofs |-> IF proof.is_some THEN Append(acc.proofs, proof)
                                 ELSE acc.proofs])

aggregate_sign_by_sks(sks, pks, msg, threshold, rng0) ==
    LET n == Len(sks)
        t == Min(threshold, n)
    IN IF t = 0 \/ n = 0
       THEN [signatures |-> <<>>, proofs |-> <<>>]
       ELSE SignLoop(0, t, sks, pks, msg, from_public_keys(pks), rng0,
                     [signatures |-> <<>>, proofs |-> <<>>])

aggregate_sign(sks, pks, msg, threshold, rng0) ==
    LET n == Min(Len(sks), Len(pks))
        t == Min(threshold, n)
    IN IF t = 0 \/ n = 0
       THEN [signatures |-> <<>>, proofs |-> <<>>]
       ELSE SignLoop(0, t, sks, pks, msg, from_public_keys(pks), rng0,
                     [signatures |-> <<>>, proofs |-> <<>>])

sign_single(sk, pk, pks, msg, rng0) ==
    LET merkle_tree == from_public_keys(pks)
        nonce == RandomBytes32(rng0 + 1)
        sig_bytes == sign_with_dilithium(sk, pk, msg)
        signature == Signature_new(sig_bytes, sk.index, nonce)
        proof == prove(merkle_tree, pk.index)
    IN [is_some |-> proof.is_some, signature |-> signature, proof |-> proof]

\* ------------------------------------------------------------ aggregation
MAX_PROOF_SIZE == 1228

NoProof == ZKSNARKProof_new(<<>>, 0, ZeroHash)

Ok(proof) == [kind |-> "Ok", index |-> 0, required |-> 0, provided |-> 0,
              reason |-> "", proof |-> proof]

Err(kind, index, required, provided, reason) ==
    [kind |-> kind, index |-> index, required |-> required, provided |-> provided,
     reason |-> reason, proof |-> NoProof]

RECURSIVE BitsByte(_, _, _)
BitsByte(indices, j, b) ==
    IF b > 7 THEN 0
    ELSE (IF (8 * j + b) \in indices THEN Pow(2, b) ELSE 0) + BitsByte(indices, j, b + 1)

\* "=" where the code has "|=": the last signer of each byte wins
create_signer_bitmap_overwrite(sigs) ==
    LET last(j) == {k \in 1..Len(sigs) :
                      /\ sigs[k].signer_index \div 8 = j
                      /\ \A k2 \in (k + 1)..Len(sigs) : sigs[k2].signer_index \div 8 # j}
        indices == UNION {{sigs[k].signer_index : k \in last(j)} : j \in 0..(HashLen - 1)}
    IN [j \in 1..HashLen |-> Byte(BitsByte(indices, j - 1, 0))]

create_signer_bitmap(sigs) ==
    LET indices == {sigs[k].signer_index : k \in 1..Len(sigs)} \cap 0..255
    IN [j \in 1..HashLen |-> Byte(BitsByte(indices, j - 1, 0))]

RECURSIVE ConcatNonces(_, _)
ConcatNonces(sigs, k) ==
    IF k > Len(sigs) THEN <<>> ELSE sigs[k].nonce \o ConcatNonces(sigs, k + 1)

compute_nonce_commitment(sigs) == sha3_256(ConcatNonces(sigs, 1))

RECURSIVE CommitmentChain(_, _, _, _)
CommitmentChain(sigs, proofs, k, running_commitment) ==
    IF k > Min(Len(sigs), Len(proofs)) THEN running_commitment
    ELSE LET sig_commitment == sha3_256(sigs[k].bytes)
         IN CommitmentChain(sigs, proofs, k + 1,
                sha3_256(running_commitment
                         \o le_bytes(sigs[k].signer_index, 8)
                         \o sigs[k].nonce
                         \o proofs[k].leaf_hash
                         \o sig_commitment))

create_aggregated_commitment(sigs, proofs, pk_root, msg) ==
    LET public_inputs_hash == sha3_256(pk_root \o msg \o le_bytes(Len(sigs), 8))
        proof_bytes ==
            <<Byte(1)>>
            \o le_bytes(Len(sigs) % 65536, 2)
            \o CommitmentChain(sigs, proofs, 1, ZeroHash)
            \o create_signer_bitmap(sigs)
            \o compute_nonce_commitment(sigs)
            \o pk_root
    IN IF Len(proof_bytes) > MAX_PROOF_SIZE
       THEN Err("AggregationFailed", 0, 0, 0, "Proof exceeds maximum size")
       ELSE Ok(ZKSNARKProof_new(proof_bytes, Len(sigs), public_inputs_hash))

\* first position (0-based) whose Merkle proof fails, or -1
RECURSIVE MerkleLoop(_, _, _)
MerkleLoop(proofs, pk_root, i) ==
    IF i >= Len(proofs) THEN -1
    ELSE IF ~verify_proof(pk_root, proofs[i + 1]) THEN i
    ELSE MerkleLoop(proofs, pk_root, i + 1)

RECURSIVE SignatureLoop(_, _, _, _)
SignatureLoop(sigs, msg, pks, i) ==
    IF i >= Len(sigs) THEN ""
    ELSE LET signer_idx == sigs[i + 1].signer_index
         IN IF signer_idx >= Len(pks) THEN "Signer index out of bounds"
            ELSE IF ~verify_single(pks[signer_idx + 1], msg, sigs[i + 1])
                 THEN "Signature failed ML-DSA verification"
                 ELSE SignatureLoop(sigs, msg, pks, i + 1)

aggregate_proofs_signatures_first(sigs, proofs, pk_root, msg, pks) ==
    IF Len(sigs) = 0
    THEN Err("InsufficientSignatures", 0, 1, 0, "")
    ELSE IF Len(sigs) # Len(proofs)
    THEN Err("InvalidInput", 0, 0, 0, "Signature and proof count mismatch")
    ELSE IF SignatureLoop(sigs, msg, pks, 0) # ""
    THEN Err("InvalidInput", 0, 0, 0, SignatureLoop(sigs, msg, pks, 0))
    ELSE IF MerkleLoop(proofs, pk_root, 0) >= 0
    THEN Err("MerkleProofInvalid", MerkleLoop(proofs, pk_root, 0), 0, 0,
             "Proof does not verify against pk_root")
    ELSE create_aggregated_commitment(sigs, proofs, pk_root, msg)

aggregate_proofs(sigs, proofs, pk_root, msg, pks) ==
    IF Len(sigs) = 0
    THEN Err("InsufficientSignatures", 0, 1, 0, "")
    ELSE IF Len(sigs) # Len(proofs)
    THEN Err("InvalidInput", 0, 0, 0, "Signature and proof count mismatch")
    ELSE LET failed_proof == MerkleLoop(proofs, pk_root, 0)
             failed_signature == SignatureLoop(sigs, msg, pks, 0)
         IN IF failed_proof >= 0
            THEN Err("MerkleProofInvalid", failed_proof, 0, 0,
                     "Proof does not verify against pk_root")
            ELSE IF failed_signature # ""
            THEN Err("InvalidInput", 0, 0, 0, failed_signature)
            ELSE create_aggregated_commitment(sigs, proofs, pk_root, msg)

RECURSIVE ConcatProofBytes(_, _)
ConcatProofBytes(proofs, k) ==
    IF k > Len(proofs) THEN <<>>
    ELSE proofs[k].proof_bytes \o ConcatProofBytes(proofs, k + 1)

\* A usize count u is written as the integer u when u < 2^31 and as u - 2^64
\* when u >= 2^64 - 2^31 (its two's-complement reading, so -1 is usize::MAX);
\* UsizeLimbs gives its four 16-bit limbs, least significant first.
UsizeLimbs(u) ==
    IF u >= 0 THEN <<u % 65536, (u \div 65536) % 65536, 0, 0>>
    ELSE <<u % 65536, (u \div 65536) % 65536, 65535, 65535>>

\* a + b in 64 bits: the wrapped value and whether the exact sum did not fit
UsizeAdd(a, b) ==
    LET s1 == a[1] + b[1]
        s2 == a[2] + b[2] + s1 \div 65536
        s3 == a[3] + b[3] + s2 \div 65536
        s4 == a[4] + b[4] + s3 \div 65536
    IN [value |-> <<s1 % 65536, s2 % 65536, s3 % 65536, s4 % 65536>>,
        overflow |-> s4 \div 65536 > 0]

\* total_signatures += proof.num_signatures() over the first k proofs
RECURSIVE SumSignatures(_, _)
SumSignatures(proofs, k) ==
    IF k = 0 THEN [value |-> UsizeLimbs(0), overflow |-> FALSE]
    ELSE LET before == SumSignatures(proofs, k - 1)
             added == UsizeAdd(before.value, UsizeLimbs(proofs[k].num_signatures))
         IN [value |-> added.value, overflow |-> before.overflow \/ added.overflow]

NoSuperProof == SuperProof_new(<<>>, <<>>, UsizeLimbs(0))

\* total_signatures is a usize: where the sum does not fit, a build with
\* overflow checks (debug profile) panics and one without them (release
\* profile) keeps the wrapped value
aggregate_zk_proofs(proofs, overflow_checks) ==
    IF Len(proofs) = 0
    THEN [kind |-> "InvalidInput", super_proof |-> NoSuperProof]
    ELSE IF overflow_checks /\ SumSignatures(proofs, Len(proofs)).overflow
    THEN [kind |-> "panic", super_proof |-> NoSuperProof]
    ELSE [kind |-> "Ok",
          super_proof |->
              SuperProof_new(<<Byte(3)>> \o sha3_256(ConcatProofBytes(proofs, 1)),
                             [k \in 1..Len(proofs) |-> proofs[k].public_inputs_hash],
                             SumSignatures(proofs, Len(proofs)).value)]

\* --------------------------------------------------------------- verifier
\* Results are "true", "false" or "panic" (an index or slice out of bounds).
MIN_PROOF_LEN == 131

MAX_SIGNERS == 256

InBounds(bytes, i) == i < Len(bytes)

SliceInBounds(bytes, from, to) == from <= to /\ to <= Len(bytes)

Slice(bytes, from, to) == SubSeq(bytes, from + 1, to)

u16_from_le_bytes(b0, b1) == b0[1] + 256 * b1[1]

RECURSIVE CountOnes(_)
CountOnes(b) == IF b <= 0 THEN 0 ELSE (b % 2) + CountOnes(b \div 2)

RECURSIVE SumOnes(_, _)
SumOnes(bitmap, k) ==
    IF k > Len(bitmap) THEN 0 ELSE CountOnes(bitmap[k][1]) + SumOnes(bitmap, k + 1)

count_signers_in_bitmap(bitmap) == SumOnes(bitmap, 1)

validate_proof_structure(proof) ==
    LET bytes == proof.proof_bytes IN
    IF Len(bytes) < MIN_PROOF_LEN THEN "false"
    ELSE IF ~InBounds(bytes, 0) THEN "panic"
    ELSE IF bytes[1] # Byte(1) THEN "false"
    ELSE IF ~InBounds(bytes, 2) THEN "panic"
    ELSE IF u16_from_le_bytes(bytes[2], bytes[3]) # proof.num_signatures THEN "false"
    ELSE IF proof.num_signatures = 0 \/ proof.num_signatures > MAX_SIGNERS THEN "false"
    ELSE "true"

compute_public_inputs_hash(pk_root, msg, num_sigs) ==
    sha3_256(pk_root \o msg \o le_bytes(num_sigs, 8))

\* a verifier that also wants the nonce commitment (body bytes 67..99) zero
verify_proof_commitments_reads_nonce(proof, pk_root) ==
    LET bytes == proof.proof_bytes
    IN IF Len(bytes) < MIN_PROOF_LEN THEN "false"
       ELSE IF Slice(bytes, Len(bytes) - HashLen, Len(bytes)) # pk_root THEN "false"
       ELSE IF count_signers_in_bitmap(Slice(bytes, 3 + HashLen, 3 + 2 * HashLen))
                  # proof.num_signatures THEN "false"
       ELSE IF Slice(bytes, 3 + 2 * HashLen, 3 + 3 * HashLen) # ZeroHash THEN "false"
       ELSE "true"

verify_proof_commitments(proof, pk_root) ==
    LET bytes == proof.proof_bytes
        proof_root_start == Len(bytes) - HashLen
        bitmap_start == 3 + HashLen
    IN IF Len(bytes) < MIN_PROOF_LEN THEN "false"
       ELSE IF ~SliceInBounds(bytes, proof_root_start, Len(bytes)) THEN "panic"
       ELSE IF Slice(bytes, proof_root_start, Len(bytes)) # pk_root THEN "false"
       ELSE IF bitmap_start + HashLen > Len(bytes) THEN "false"
       ELSE IF ~SliceInBounds(bytes, bitmap_start, bitmap_start + HashLen) THEN "panic"
       ELSE IF count_signers_in_bitmap(Slice(bytes, bitmap_start, bitmap_start + HashLen))
                  # proof.num_signatures THEN "false"
       ELSE "true"

verify_without_inputs_hash(pk_root, msg, proof) ==
    IF validate_proof_structure(proof) # "true"
    THEN validate_proof_structure(proof)
    ELSE verify_proof_commitments(proof, pk_root)

verify(pk_root, msg, proof) ==
    IF validate_proof_structure(proof) # "true"
    THEN validate_proof_structure(proof)
    ELSE IF compute_public_inputs_hash(pk_root, msg, proof.num_signatures)
                # proof.public_inputs_hash
    THEN "false"
    ELSE verify_proof_commitments(proof, pk_root)

batch_verify(pk_root, messages, proofs) ==
    IF Len(messages) # Len(proofs)
    THEN [k \in 1..Len(proofs) |-> "false"]
    ELSE [k \in 1..Len(proofs) |-> verify(pk_root, messages[k], proofs[k])]

RECURSIVE HashesLoop(_, _, _)
HashesLoop(super_proof, batch_hashes, i) ==
    IF i >= Len(batch_hashes) THEN "true"
    ELSE IF ~InBounds(super_proof.batch_hashes, i) THEN "panic"
    ELSE IF super_proof.batch_hashes[i + 1] # batch_hashes[i + 1] THEN "false"
    ELSE HashesLoop(super_proof, batch_hashes, i + 1)

verify_super_proof(super_proof, batch_hashes) ==
    IF num_batches(super_proof) # Len(batch_hashes) THEN "false"
    ELSE IF Len(batch_hashes) = 0 THEN "false"
    ELSE IF HashesLoop(super_proof, batch_hashes, 0) # "true"
    THEN HashesLoop(super_proof, batch_hashes, 0)
    ELSE IF ~InBounds(super_proof.proof_bytes, 0) THEN "panic"
    ELSE IF super_proof.proof_bytes[1] = Byte(3)
            /\ Len(super_proof.proof_bytes) >= 1 + HashLen
    THEN "true" ELSE "false"

verify_rotation_proof_any_root(rotation, current_trusted_root) ==
    verify(rotation.old_root, rotation.new_root, rotation.proof)

\* a verifier that wants a rotation past epoch 0
verify_rotation_proof_checks_epoch(rotation, current_trusted_root) ==
    IF rotation.old_root # current_trusted_root \/ rotation.epoch = 0 THEN "false"
    ELSE verify(rotation.old_root, rotation.new_root, rotation.proof)

verify_rotation_proof(rotation, current_trusted_root) ==
    IF rotation.old_root # current_trusted_root THEN "false"
    ELSE verify(rotation.old_root, rotation.new_root, rotation.proof)

\* The ceiling of a / b over the integers, exact: the value the specification
\* states for ceil(n * ratio) and ceil(n * p / 100).  It appears only in the
\* statements of C15 and C16; what the code computes is ceil_f64_product
\* (utils.rs, in f64) and the usize arithmetic inside verify_with_policy.
CeilDiv(a, b) == (a + b - 1) \div b

RECURSIVE FloorLog2(_)
FloorLog2(x) == IF x <= 1 THEN 0 ELSE 1 + FloorLog2(x \div 2)

\* The f64 nearest to percent/100 is (percent * 2^53 + F64Excess) / (100 * 2^53):
\* 0.51 -> 4593671619917906 / 2^53, 0.67 -> 6034823500676465 / 2^53, 0.75 exact
F64Excess(ratio_percent) ==
    CASE ratio_percent = 51 -> 8
      [] ratio_percent = 67 -> 36
      [] ratio_percent = 75 -> 0

\* (n as f64 * ratio).ceil() for 1 <= n < 2^24.  The exact product is
\* q + rem/100 + n*excess/(100 * 2^53) with q = n*percent div 100; the
\* multiplication rounds it to the nearest f64 (ties to even), whose spacing
\* near q is 2^(FloorLog2(q) - 52).  With rem > 0 the rounded product stays
\* strictly between q and q + 1.  With rem = 0 it is q unless the excess
\* n*excess/(100 * 2^53) is more than half a spacing, and then it is above q.
ceil_f64_product(n, ratio_percent) ==
    LET q == (n * ratio_percent) \div 100
        rem == (n * ratio_percent) % 100
    IN IF rem > 0 THEN q + 1
       ELSE IF n * F64Excess(ratio_percent) > 100 * Pow(2, FloorLog2(q)) THEN q + 1
       ELSE q

calculate_adaptive_threshold(n, security_level) ==
    IF n = 0 THEN 0
    ELSE LET ratio_percent == CASE security_level = 1 -> 51
                                [] security_level = 2 -> 67
                                [] security_level = 3 -> 75
                                [] OTHER -> 67
             threshold == ceil_f64_product(n, ratio_percent)
             at_least_one == IF threshold < 1 THEN 1 ELSE threshold
         IN Min(at_least_one, n)

\* usize values that may exceed the model's integers: four 16-bit limbs,
\* least significant first
Limb == 65536

U64(n) == <<n % Limb, (n \div Limb) % Limb, 0, 0>>

U64Small(a) == a[3] = 0 /\ a[4] = 0 /\ a[2] < 16384

U64ToInt(a) == a[1] + Limb * a[2]

\* a * k and a + k in 64 bits for 0 <= k < 65536: the wrapped value and
\* whether the exact result did not fit
U64MulSmall(a, k) ==
    LET p1 == a[1] * k
        p2 == a[2] * k + p1 \div Limb
        p3 == a[3] * k + p2 \div Limb
        p4 == a[4] * k + p3 \div Limb
    IN [value |-> <<p1 % Limb, p2 % Limb, p3 % Limb, p4 % Limb>>,
        overflow |-> p4 \div Limb > 0]

U64AddSmall(a, k) ==
    LET s1 == a[1] + k
        s2 == a[2] + s1 \div Limb
        s3 == a[3] + s2 \div Limb
        s4 == a[4] + s3 \div Limb
    IN [value |-> <<s1 % Limb, s2 % Limb, s3 % Limb, s4 % Limb>>,
        overflow |-> s4 \div Limb > 0]

U64DivSmall(a, d) ==
    LET r4 == a[4] % d
        n3 == r4 * Limb + a[3]
        n2 == (n3 % d) * Limb + a[2]
        n1 == (n2 % d) * Limb + a[1]
    IN <<n1 \div d, n2 \div d, n3 \div d, a[4] \div d>>

\* t >= a for a model integer t
U64AtMost(a, t) == U64Small(a) /\ U64ToInt(a) <= t

\* total_validators is a usize given as limbs; n * pct + 99 is computed in
\* usize: with overflow checks (debug profile) an overflow panics, without
\* them (release profile) the value wraps
verify_with_policy(pk_root, msg, proof, total_validators, policy, overflow_checks) ==
    IF verify(pk_root, msg, proof) # "true"
    THEN verify(pk_root, msg, proof)
    ELSE LET t == proof.num_signatures
             n == total_validators
         IN CASE policy.kind = "Fixed" -> IF t = policy.value THEN "true" ELSE "false"
              [] policy.kind = "AtLeast" -> IF t >= policy.value THEN "true" ELSE "false"
              [] policy.kind = "Percentage" ->
                   LET product == U64MulSmall(n, policy.value)
                       sum == U64AddSmall(product.value, 99)
                       min_req == U64DivSmall(sum.value, 100)
                   IN IF overflow_checks /\ (product.overflow \/ sum.overflow)
                      THEN "panic"
                      ELSE IF U64AtMost(min_req, t) THEN "true" ELSE "false"
              [] policy.kind = "Tiered" ->
                   IF t >= calculate_adaptive_threshold(U64ToInt(n), policy.value)
                   THEN "true" ELSE "false"

\* =================================================== Merkle tree session
LeafPool == {ZeroHash, RandomBytes32(1), RandomBytes32(2)}

RECURSIVE SeqsUpTo(_, _)
SeqsUpTo(S, n) ==
    IF n = 0 THEN {<<>>}
    ELSE LET shorter == SeqsUpTo(S, n - 1)
         IN shorter \cup {Append(q, x) : q \in {r \in shorter : Len(r) = n - 1}, x \in S}

NoCall == [fn |-> "none", out |-> <<>>]

NoAgg == [called |-> FALSE, sigs |-> <<>>, proofs |-> <<>>, pk_root |-> ZeroHash,
          msg |-> <<>>, pks |-> <<>>, result |-> Err("none", 0, 0, 0, "")]

PipeInit ==
    /\ p_pc = "new"
    /\ p_rng = 0
    /\ c_sks = <<>>
    /\ c_pks = <<>>
    /\ c_root = ZeroHash
    /\ s_msg = <<>>
    /\ s_threshold = 0
    /\ h_sigs = <<>>
    /\ h_proofs = <<>>
    /\ w_sigs = <<>>
    /\ w_proofs = <<>>
    /\ w_root = ZeroHash
    /\ w_msg = <<>>
    /\ w_pks = <<>>
    /\ tampers = 0
    /\ arg_changed = FALSE
    /\ agg = NoAgg
    /\ zk = NoProof
    /\ zk_origin = "none"
    /\ v_log = <<>>
    /\ call = NoCall

NoFn == [fn |-> "none"]

EmptyMap == [x \in {} |-> 0]

NoEngine == [threshold |-> 0, risk_tier |-> "Low"]

IncrementalMerkleTree_new == [leaves |-> <<>>, current_root |-> ZeroHash]

\* events is what get_events_range reads: the logged events in order
CausalEventLogger_new ==
    [last_nonce |-> 0, last_timestamp |-> 0, merkle_tree |-> IncrementalMerkleTree_new,
     leaves |-> <<>>, events |-> <<>>]

RuntimeInit ==
    /\ r_pc = "new"
    /\ r_engine = NoEngine
    /\ r_wallet_key = FALSE
    /\ r_logger = CausalEventLogger_new
    /\ r_status = EmptyMap
    /\ r_orch = EmptyMap
    /\ r_rate = EmptyMap
    /\ r_idem = EmptyMap
    /\ r_ret = [kind |-> "none"]
    /\ r_proposed = {}
    /\ r_cleared = {}
    /\ r_sign_asked = {}
    /\ r_submit_asked = {}
    /\ r_updates = 0

\* a buffer: its bytes and whether its owning scope is "none" (not created),
\* "live" or "ended"
Buffer(bytes, scope) == [bytes |-> bytes, scope |-> scope]

StackLocals == {"secret_bytes", "raw", "keypair"}

NoSigning == [fn |-> "none", i |-> 0, t |-> 0]

KeyMemoryInit ==
    /\ k_pc = "new"
    /\ k_call = NoSigning
    /\ k_sks = <<>>
    /\ k_stack = [b \in StackLocals |-> Buffer(<<>>, "none")]

Threads == {1, 2}

\* SolanaDevnetAdapter::new has initialised LAST_RESET with the current time
RateLimitInit ==
    /\ TX_COUNT = 0
    /\ LAST_RESET = 0
    /\ t_clock = 0
    /\ t_lock = 0
    /\ t_pc = [th \in Threads |-> "idle"]
    /\ t_now = [th \in Threads |-> 0]
    /\ t_ret = [th \in Threads |-> "none"]
    /\ t_calls = 0
    /\ t_oks_window = 0
    /\ t_oks_store = 0

MerkleInit ==
    /\ PipeInit
    /\ f_call = NoFn
    /\ KeyMemoryInit
    /\ RuntimeInit
    /\ RateLimitInit
    /\ m_pc = "new"
    /\ m_leaves = <<>>
    /\ m_tree = from_leaves(<<>>)
    /\ m_req = 0
    /\ m_proof = NoneProof
    /\ m_root = ZeroHash
    /\ m_tampered = FALSE
    /\ m_log = <<>>

FromLeaves(L) ==
    /\ m_pc = "new"
    /\ m_pc' = "built"
    /\ m_leaves' = L
    /\ m_tree' = from_leaves(L)
    /\ UNCHANGED <<m_req, m_proof, m_root, m_tampered, m_log>>
    /\ UNCHANGED <<pvars, fvars, xvars>>

Prove(i) ==
    /\ m_pc = "built"
    /\ m_pc' = "proved"
    /\ m_req' = i
    /\ m_proof' = prove(m_tree, i)
    /\ m_root' = root(m_tree)
    /\ UNCHANGED <<m_leaves, m_tree, m_tampered, m_log>>
    /\ UNCHANGED <<pvars, fvars, xvars>>

CanVerify ==
    /\ m_pc = "proved"
    /\ m_proof.is_some
    /\ IF Len(m_log) = 0 THEN TRUE
       ELSE m_log[Len(m_log)] \notin {"verify_true", "verify_false"}

VerifyProof ==
    /\ CanVerify
    /\ m_log' = Append(m_log, IF verify_proof(m_root, m_proof)
                              THEN "verify_true" ELSE "verify_false")
    /\ UNCHANGED <<m_pc, m_leaves, m_tree, m_req, m_proof, m_root, m_tampered>>
    /\ UNCHANGED <<pvars, fvars, xvars>>

CanTamper == m_pc = "proved" /\ m_proof.is_some /\ ~m_tampered

TamperValues == LeafPool \cup {root(m_tree)}

Tampered(name) ==
    /\ m_tampered' = TRUE
    /\ m_log' = Append(m_log, name)
    /\ UNCHANGED <<m_pc, m_leaves, m_tree, m_req>>
    /\ UNCHANGED <<pvars, fvars, xvars>>

TamperLeaf(v) ==
    /\ CanTamper
    /\ v # m_proof.leaf_hash
    /\ m_proof' = [m_proof EXCEPT !.leaf_hash = v]
    /\ UNCHANGED m_root
    /\ Tampered("TamperLeaf")

TamperSibling(j, v) ==
    /\ CanTamper
    /\ j \in 1..Len(m_proof.siblings)
    /\ v # m_proof.siblings[j]
    /\ m_proof' = [m_proof EXCEPT !.siblings[j] = v]
    /\ UNCHANGED m_root
    /\ Tampered("TamperSibling")

TamperRoot(v) ==
    /\ CanTamper
    /\ v # m_root
    /\ m_root' = v
    /\ UNCHANGED m_proof
    /\ Tampered("TamperRoot")

\* MerkleProof::new is public: the caller may pass an inner node as the leaf
TruncateProof ==
    /\ CanTamper
    /\ Len(m_proof.siblings) >= 1
    /\ m_proof' = MerkleProof_new(
                      Tail(m_proof.siblings),
                      m_proof.leaf_index \div 2,
                      VerifyWalk(m_proof.leaf_hash, m_proof.leaf_index,
                                 <<m_proof.siblings[1]>>, 1))
    /\ UNCHANGED m_root
    /\ Tampered("TruncateProof")

RootAsLeaf ==
    /\ CanTamper
    /\ m_proof' = MerkleProof_new(<<>>, 0, m_root)
    /\ m_proof' # m_proof
    /\ UNCHANGED m_root
    /\ Tampered("RootAsLeaf")

DropSibling ==
    /\ CanTamper
    /\ Len(m_proof.siblings) >= 1
    /\ m_proof' = [m_proof EXCEPT
                      !.siblings = SubSeq(m_proof.siblings, 1, Len(m_proof.siblings) - 1)]
    /\ UNCHANGED m_root
    /\ Tampered("DropSibling")

ExtendProof(v) ==
    /\ CanTamper
    /\ m_proof' = [m_proof EXCEPT !.siblings = Append(m_proof.siblings, v)]
    /\ UNCHANGED m_root
    /\ Tampered("ExtendProof")

MerkleNext ==
    \/ \E L \in SeqsUpTo(LeafPool, MaxLeaves) : FromLeaves(L)
    \/ \E i \in 0..MaxLeaves : Prove(i)
    \/ VerifyProof
    \/ \E v \in TamperValues : TamperLeaf(v)
    \/ \E j \in 1..MaxLeaves, v \in TamperValues : TamperSibling(j, v)
    \/ \E v \in TamperValues : TamperRoot(v)
    \/ TruncateProof
    \/ RootAsLeaf
    \/ DropSibling
    \/ \E v \in TamperValues : ExtendProof(v)

SpecMerkle == MerkleInit /\ [][MerkleNext]_vars

\* ====================================================== signing session
Transaction == <<Byte(7)>>

Msgs == {Transaction, <<Byte(7), Byte(0)>>}

\* [0xFF; 32], the wrong root of the repository's tests
WrongRoot == [k \in 1..HashLen |-> Byte(255)]

Roots == {c_root, WrongRoot}

Setup(n) ==
    /\ p_pc = "new"
    /\ LET out == setup(n, p_rng)
       IN /\ c_sks' = out.secret_keys
          /\ c_pks' = out.public_keys
          /\ c_root' = out.pk_root
    /\ p_rng' = p_rng + n
    /\ p_pc' = "setup"
    /\ UNCHANGED <<s_msg, s_threshold, h_sigs, h_proofs, w_sigs, w_proofs, w_root,
                   w_msg, w_pks, tampers, arg_changed, agg, zk, zk_origin, v_log, call>>
    /\ UNCHANGED <<mvars, fvars, xvars>>

AggregateSign(m, t) ==
    /\ p_pc = "setup"
    /\ LET out == aggregate_sign(c_sks, c_pks, m, t, p_rng)
       IN /\ h_sigs' = out.signatures
          /\ h_proofs' = out.proofs
          /\ w_sigs' = out.signatures
          /\ w_proofs' = out.proofs
          /\ p_rng' = p_rng + Len(out.signatures)
    /\ s_msg' = m
    /\ s_threshold' = t
    /\ w_root' = c_root
    /\ w_msg' = m
    /\ w_pks' = c_pks
    /\ p_pc' = "signed"
    /\ UNCHANGED <<c_sks, c_pks, c_root, tampers, arg_changed, agg, zk, zk_origin,
                   v_log, call>>
    /\ UNCHANGED <<mvars, fvars, xvars>>

AggregateProofs ==
    /\ p_pc = "signed"
    /\ LET result == aggregate_proofs(w_sigs, w_proofs, w_root, w_msg, w_pks)
       IN /\ agg' = [called |-> TRUE, sigs |-> w_sigs, proofs |-> w_proofs,
                     pk_root |-> w_root, msg |-> w_msg, pks |-> w_pks,
                     result |-> result]
          /\ zk' = result.proof
          /\ zk_origin' = IF result.kind = "Ok" THEN "aggregated" ELSE "none"
    /\ p_pc' = "aggregated"
    /\ UNCHANGED <<p_rng, c_sks, c_pks, c_root, s_msg, s_threshold, h_sigs, h_proofs,
                   w_sigs, w_proofs, w_root, w_msg, w_pks, tampers, arg_changed,
                   v_log, call>>
    /\ UNCHANGED <<mvars, fvars, xvars>>

\* ------------------------------------------------ the verifier's side
VerifierKeeps == UNCHANGED <<p_rng, c_sks, c_pks, c_root, s_msg, s_threshold,
                             h_sigs, h_proofs, w_sigs, w_proofs, w_root, w_msg,
                             w_pks, tampers, arg_changed, agg>>

\* ZKSNARKProof::new is public: a proof object assembled from the root, a
\* message, a count and a bitmap, with no key and no signature
ForgedProof(pk_root, m, count) ==
    ZKSNARKProof_new(
        <<Byte(1)>> \o le_bytes(count, 2) \o ZeroHash
            \o [j \in 1..HashLen |-> Byte(BitsByte(0..(count - 1), j - 1, 0))]
            \o ZeroHash \o pk_root,
        count,
        sha3_256(pk_root \o m \o le_bytes(count, 8)))

Forge(m, count) ==
    /\ p_pc = "setup"
    /\ zk' = ForgedProof(c_root, m, count)
    /\ zk_origin' = "forged"
    /\ p_pc' = "forged"
    /\ UNCHANGED <<v_log, call>>
    /\ VerifierKeeps
    /\ UNCHANGED <<mvars, fvars, xvars>>

MalformKinds == {"empty", "truncated", "version", "count", "zero", "many",
                 "extended", "bitmap", "hash"}

SetByte(bytes, i, b) == [bytes EXCEPT ![i + 1] = Byte(b)]

Malformed(proof, kind) ==
    LET bytes == proof.proof_bytes
        n == proof.num_signatures
        h == proof.public_inputs_hash
    IN CASE kind = "empty" -> ZKSNARKProof_new(<<>>, n, h)
         [] kind = "truncated" -> ZKSNARKProof_new(SubSeq(bytes, 1, Len(bytes) - 1), n, h)
         [] kind = "version" -> ZKSNARKProof_new(SetByte(bytes, 0, 2), n, h)
         [] kind = "count" -> ZKSNARKProof_new(SetByte(bytes, 1, (n + 1) % 256), n, h)
         [] kind = "zero" -> ZKSNARKProof_new(SetByte(bytes, 1, 0), 0, h)
         [] kind = "many" -> ZKSNARKProof_new(SetByte(SetByte(bytes, 1, 1), 2, 1),
                                              MAX_SIGNERS + 1, h)
         [] kind = "extended" -> ZKSNARKProof_new(Append(bytes, Byte(0)), n, h)
         [] kind = "bitmap" -> ZKSNARKProof_new(SetByte(bytes, 3 + HashLen + 1, 1), n, h)
         [] kind = "hash" -> ZKSNARKProof_new(bytes, n, ZeroHash)

Malform(kind) ==
    /\ p_pc \in {"aggregated", "forged"}
    /\ zk_origin \in {"aggregated", "forged"}
    /\ v_log = <<>>
    /\ call = NoCall
    /\ zk' = Malformed(zk, kind)
    /\ zk_origin' = "malformed"
    /\ UNCHANGED <<p_pc, v_log, call>>
    /\ VerifierKeeps
    /\ UNCHANGED <<mvars, fvars, xvars>>

Verify(r, m) ==
    /\ p_pc \in {"aggregated", "forged"}
    /\ call = NoCall
    /\ Len(v_log) < MaxVerify
    /\ (Len(v_log) > 0 => v_log[1].out = "true")
    /\ v_log' = Append(v_log, [root |-> r, msg |-> m, out |-> verify(r, m, zk)])
    /\ UNCHANGED <<p_pc, zk, zk_origin, call>>
    /\ VerifierKeeps
    /\ UNCHANGED <<mvars, fvars, xvars>>

Called(fn, out) ==
    /\ p_pc \in {"aggregated", "forged"}
    /\ call = NoCall
    /\ v_log = <<>>
    /\ call' = [fn |-> fn, out |-> out]
    /\ UNCHANGED <<p_pc, zk, zk_origin, v_log>>
    /\ VerifierKeeps
    /\ UNCHANGED <<mvars, fvars, xvars>>

BatchVerify(messages, n_proofs) ==
    Called("batch_verify", batch_verify(c_root, messages, [k \in 1..n_proofs |-> zk]))

Policies == [kind : {"Fixed", "AtLeast", "Percentage", "Tiered"}, value : {1, 2, 67}]

VerifyWithPolicy(m, total_validators, policy) ==
    \E overflow_checks \in BOOLEAN :
        Called("verify_with_policy",
               <<verify_with_policy(c_root, m, zk, U64(total_validators), policy,
                                    overflow_checks)>>)

VerifyRotationProof(old_root, trusted_root) ==
    Called("verify_rotation_proof",
           <<verify_rotation_proof(
                 RotationProof_new(old_root, RandomBytes32(0), zk, 1), trusted_root)>>)

SuperProofKinds == {"as_built", "no_bytes", "short", "wrong_version", "wrong_hash",
                    "no_hashes", "extra_hash"}

VerifySuperProof(kind) ==
    LET built == aggregate_zk_proofs(<<zk>>, TRUE).super_proof
        hashes == <<zk.public_inputs_hash>>
    IN Called("verify_super_proof",
         <<CASE kind = "as_built" -> verify_super_proof(built, hashes)
             [] kind = "no_bytes" ->
                    verify_super_proof([built EXCEPT !.proof_bytes = <<>>], hashes)
             [] kind = "short" ->
                    verify_super_proof([built EXCEPT !.proof_bytes = <<Byte(3)>>], hashes)
             [] kind = "wrong_version" ->
                    verify_super_proof([built EXCEPT !.proof_bytes[1] = Byte(1)], hashes)
             [] kind = "wrong_hash" -> verify_super_proof(built, <<WrongRoot>>)
             [] kind = "no_hashes" ->
                    verify_super_proof([built EXCEPT !.batch_hashes = <<>>], <<>>)
             [] kind = "extra_hash" ->
                    verify_super_proof(built, <<zk.public_inputs_hash, WrongRoot>>)>>)

Init == MerkleInit

Next ==
    \/ \E n \in 0..MaxN : Setup(n)
    \/ \E m \in Msgs, t \in 0..MaxN : AggregateSign(m, t)
    \/ AggregateProofs
    \/ \E m \in Msgs, count \in 1..MaxN : Forge(m, count)
    \/ \E kind \in MalformKinds : Malform(kind)
    \/ \E r \in Roots, m \in Msgs : Verify(r, m)
    \/ \E messages \in SeqsUpTo(Msgs, 2), n_proofs \in 1..2 : BatchVerify(messages, n_proofs)
    \/ \E m \in Msgs, total_validators \in {0, MaxN}, policy \in Policies :
           VerifyWithPolicy(m, total_validators, policy)
    \/ \E old_root \in Roots, trusted_root \in Roots :
           VerifyRotationProof(old_root, trusted_root)
    \/ \E kind \in SuperProofKinds : VerifySuperProof(kind)

Spec == Init /\ [][Next]_vars

\* ------------------------- the caller's side: arguments of aggregate_proofs
\* a key pair generated outside the committee
OutsiderKey == Keypair_generate(100)

CallerKeeps == UNCHANGED <<p_pc, p_rng, c_sks, c_pks, c_root, s_msg, s_threshold,
                           h_sigs, h_proofs, agg, zk, zk_origin, v_log, call>>

ListChange ==
    /\ p_pc = "signed"
    /\ tampers < MaxTamper
    /\ tampers' = tampers + 1
    /\ UNCHANGED <<w_root, w_msg, w_pks, arg_changed>>
    /\ CallerKeeps
    /\ UNCHANGED <<mvars, fvars, xvars>>

ArgChange ==
    /\ p_pc = "signed"
    /\ tampers < MaxTamper
    /\ ~arg_changed
    /\ tampers' = tampers + 1
    /\ arg_changed' = TRUE
    /\ UNCHANGED <<w_sigs, w_proofs>>
    /\ CallerKeeps
    /\ UNCHANGED <<mvars, fvars, xvars>>

DropLastProof ==
    /\ ListChange
    /\ Len(w_proofs) >= 1
    /\ w_proofs' = SubSeq(w_proofs, 1, Len(w_proofs) - 1)
    /\ UNCHANGED w_sigs

DropLastSignature ==
    /\ ListChange
    /\ Len(w_sigs) >= 1
    /\ w_sigs' = SubSeq(w_sigs, 1, Len(w_sigs) - 1)
    /\ UNCHANGED w_proofs

SwapProofs ==
    /\ ListChange
    /\ Len(w_proofs) >= 2
    /\ w_proofs' = [w_proofs EXCEPT ![1] = w_proofs[2], ![2] = w_proofs[1]]
    /\ UNCHANGED w_sigs

RootAsLeafProof(i) ==
    /\ ListChange
    /\ i \in 1..Len(w_proofs)
    /\ w_proofs' = [w_proofs EXCEPT ![i] = MerkleProof_new(<<>>, 0, w_root)]
    /\ w_proofs' # w_proofs
    /\ UNCHANGED w_sigs

CorruptProofLeaf(i) ==
    /\ ListChange
    /\ i \in 1..Len(w_proofs)
    /\ w_proofs' = [w_proofs EXCEPT ![i].leaf_hash = RandomBytes32(0)]
    /\ w_proofs' # w_proofs
    /\ UNCHANGED w_sigs

SetSignerIndex(i, idx) ==
    /\ ListChange
    /\ i \in 1..Len(w_sigs)
    /\ idx # w_sigs[i].signer_index
    /\ w_sigs' = [w_sigs EXCEPT ![i].signer_index = idx]
    /\ UNCHANGED w_proofs

CorruptSignature(i) ==
    /\ ListChange
    /\ i \in 1..Len(w_sigs)
    /\ w_sigs' = [w_sigs EXCEPT ![i].bytes = <<Byte(0)>>]
    /\ w_sigs' # w_sigs
    /\ UNCHANGED w_proofs

DuplicateFirst ==
    /\ ListChange
    /\ Len(w_sigs) >= 1
    /\ Len(w_proofs) >= 1
    /\ w_sigs' = Append(w_sigs, w_sigs[1])
    /\ w_proofs' = Append(w_proofs, w_proofs[1])

OutsiderSigns ==
    /\ ListChange
    /\ Len(w_sigs) >= 1
    /\ w_sigs' = [k \in 1..Len(w_sigs) |->
                    [w_sigs[k] EXCEPT !.bytes = Keypair_sign(OutsiderKey.secret, w_msg)]]
    /\ w_sigs' # w_sigs
    /\ UNCHANGED w_proofs

UseWrongRoot ==
    /\ ArgChange
    /\ w_root' = WrongRoot
    /\ UNCHANGED <<w_msg, w_pks>>

UseOtherMessage(m) ==
    /\ ArgChange
    /\ m # w_msg
    /\ w_msg' = m
    /\ UNCHANGED <<w_root, w_pks>>

UseOutsiderKeys ==
    /\ ArgChange
    /\ Len(w_pks) >= 1
    /\ w_pks' = [k \in 1..Len(w_pks) |-> PublicKey_from_bytes(OutsiderKey.public, k - 1)]
    /\ UNCHANGED <<w_root, w_msg>>

NextAggregate ==
    \/ \E n \in 0..MaxN : Setup(n)
    \/ \E t \in 0..MaxN : AggregateSign(Transaction, t)
    \/ DropLastProof
    \/ DropLastSignature
    \/ SwapProofs
    \/ \E i \in 1..MaxN : RootAsLeafProof(i)
    \/ \E i \in 1..MaxN : CorruptProofLeaf(i)
    \/ \E i \in 1..MaxN : SetSignerIndex(i, Len(w_pks))
    \/ \E i \in 1..MaxN : CorruptSignature(i)
    \/ DuplicateFirst
    \/ OutsiderSigns
    \/ UseWrongRoot
    \/ \E m \in Msgs : UseOtherMessage(m)
    \/ UseOutsiderKeys
    \/ AggregateProofs

SpecAggregate == Init /\ [][NextAggregate]_vars

\* ------------------------------------------- signing session: properties
Untampered == tampers = 0 /\ ~arg_changed

\* C1: for 1 <= t <= n, setup(n), aggregate_sign(.., m, t) and aggregate_proofs
\* on what it returned give Ok(proof) with proof.num_signatures = t and a body
\* of at most 1228 bytes, and verify(pk_root, m, proof) is true.
C1_PipelineAccepts ==
    (/\ agg.called
     /\ Untampered
     /\ Len(c_pks) >= 1
     /\ s_threshold \in 1..Len(c_pks))
    => /\ agg.result.kind = "Ok"
       /\ agg.result.proof.num_signatures = s_threshold
       /\ Len(agg.result.proof.proof_bytes) <= 1228
       /\ verify(c_root, s_msg, agg.result.proof) = "true"
       /\ \A k \in 1..Len(v_log) :
            (zk_origin = "aggregated" /\ v_log[k].root = c_root /\ v_log[k].msg = s_msg)
                => v_log[k].out = "true"

C1_Witness ==
    /\ agg.called
    /\ Untampered
    /\ Len(c_pks) = 3
    /\ s_threshold = 2
    /\ zk_origin = "aggregated"
    /\ v_log = <<[root |-> c_root, msg |-> s_msg, out |-> "true"]>>

\* committee members with a signature over m among all signatures ever made
SignersOf(m) ==
    {i \in 1..Len(c_pks) : \E j \in 1..Len(h_sigs) : verify_single(c_pks[i], m, h_sigs[j])}

\* C2: whenever verify(pk_root, m, proof) returns true, at least
\* proof.num_signatures distinct committee members committed under pk_root
\* have signed m; no proof assembled from public data alone is accepted.
C2_AcceptedMeansSigned ==
    \A k \in 1..Len(v_log) :
        v_log[k].out = "true"
            => /\ v_log[k].root = c_root
               /\ Cardinality(SignersOf(v_log[k].msg)) >= zk.num_signatures
               /\ zk_origin # "forged"

\* C5: a proof verify accepts for (pk_root, m) is rejected for every other
\* message under the same root and for every other root under the same message.
C5_BoundToMessageAndRoot ==
    \A j \in 1..Len(v_log), k \in 1..Len(v_log) :
        (/\ v_log[j].out = "true"
         /\ \/ (v_log[k].msg # v_log[j].msg /\ v_log[k].root = v_log[j].root)
            \/ (v_log[k].root # v_log[j].root /\ v_log[k].msg = v_log[j].msg))
        => v_log[k].out = "false"

C5_Witness ==
    /\ zk_origin = "aggregated"
    /\ Len(v_log) = 2
    /\ v_log[1].out = "true"
    /\ v_log[2].root = v_log[1].root
    /\ v_log[2].msg # v_log[1].msg
    /\ v_log[2].out = "false"

\* C6: verify, batch_verify, verify_with_policy, verify_rotation_proof and
\* verify_super_proof return booleans and never panic, whatever the input;
\* a malformed proof yields false.
C6_VerificationTotal ==
    /\ \A k \in 1..Len(v_log) : v_log[k].out \in {"true", "false"}
    /\ \A k \in 1..Len(call.out) : call.out[k] \in {"true", "false"}
    /\ zk_origin = "malformed" => \A k \in 1..Len(v_log) : v_log[k].out = "false"

\* ------------------------------------------ aggregation: properties
CommitteeLeaves == {sha3_256(c_pks[k].bytes) : k \in 1..Len(c_pks)}

\* C3: when aggregate_proofs returns Ok, at every position i the key the
\* signature was checked against, pks[sigs[i].signer_index], is the key whose
\* hash is proofs[i].leaf_hash, and that hash is a leaf of the tree under pk_root.
C3_KeysBelongToCommittee ==
    (agg.called /\ agg.result.kind = "Ok")
    => \A i \in 1..Len(agg.sigs) :
          /\ sha3_256(agg.pks[agg.sigs[i].signer_index + 1].bytes)
                = agg.proofs[i].leaf_hash
          /\ agg.pk_root = c_root
          /\ agg.proofs[i].leaf_hash \in CommitteeLeaves

\* 0-based positions whose Merkle proof does not verify against the root given
BadMerklePositions ==
    {i \in 0..(Len(agg.proofs) - 1) : ~verify_proof(agg.pk_root, agg.proofs[i + 1])}

\* 0-based positions whose signer index is out of bounds or whose signature fails
BadSignaturePositions ==
    {i \in 0..(Len(agg.sigs) - 1) :
        \/ agg.sigs[i + 1].signer_index >= Len(agg.pks)
        \/ ~verify_single(agg.pks[agg.sigs[i + 1].signer_index + 1], agg.msg,
                          agg.sigs[i + 1])}

Lowest(S) == CHOOSE x \in S : \A y \in S : x <= y

\* C4: aggregate_proofs answers bad input in a fixed order and returns no
\* proof: no signatures -> InsufficientSignatures{required 1, provided 0};
\* else unequal counts -> InvalidInput; else the lowest position whose Merkle
\* proof fails -> MerkleProofInvalid{index}; else a signature with an
\* out-of-bounds signer index or failing verification -> InvalidInput.
C4_ErrorPrecedence ==
    agg.called =>
        IF Len(agg.sigs) = 0
        THEN /\ agg.result.kind = "InsufficientSignatures"
             /\ agg.result.required = 1
             /\ agg.result.provided = 0
             /\ agg.result.proof = NoProof
        ELSE IF Len(agg.sigs) # Len(agg.proofs)
        THEN /\ agg.result.kind = "InvalidInput"
             /\ agg.result.proof = NoProof
        ELSE IF BadMerklePositions # {}
        THEN /\ agg.result.kind = "MerkleProofInvalid"
             /\ agg.result.index = Lowest(BadMerklePositions)
             /\ agg.result.proof = NoProof
        ELSE IF BadSignaturePositions # {}
        THEN /\ agg.result.kind = "InvalidInput"
             /\ agg.result.proof = NoProof
        ELSE TRUE

C4_Witness ==
    /\ agg.called
    /\ Len(agg.sigs) = Len(agg.proofs)
    /\ BadMerklePositions = {1}
    /\ 0 \in BadSignaturePositions
    /\ agg.result.kind = "MerkleProofInvalid"
    /\ agg.result.index = 1
    /\ agg.result.proof = NoProof

\* ---------------------------------------------- Merkle tree: properties
Range(q) == {q[k] : k \in 1..Len(q)}

IsPowerOfTwo(s) == \E e \in 0..s : Pow(2, e) = s

RECURSIVE Log2(_)
Log2(s) == IF s <= 1 THEN 0 ELSE 1 + Log2(s \div 2)

LeafSlots(tree) == (Len(tree.nodes) + 1) \div 2

Depth(tree) == Log2(LeafSlots(tree))

\* C7: for a non-empty leaf list, prove(i) returns a proof exactly when
\* i < |L|, and every proof it returns verifies against the tree's root.
C7_ProveRoundTrip ==
    (m_pc = "proved" /\ ~m_tampered /\ Len(m_leaves) > 0) =>
        /\ m_proof.is_some <=> m_req < Len(m_leaves)
        /\ m_proof.is_some => verify_proof(root(m_tree), m_proof)
        /\ m_proof.is_some => m_proof.leaf_hash = m_leaves[m_req + 1]
        /\ "verify_false" \notin Range(m_log)

C7_Witness ==
    /\ m_pc = "proved"
    /\ ~m_tampered
    /\ Len(m_leaves) = 3
    /\ m_req = 2
    /\ m_log = <<"verify_true">>

\* C8: verify_proof returns false for every proof whose number of siblings
\* differs from the depth of the tree that produced the root.
C8_WrongLengthRejected ==
    (/\ m_pc = "proved"
     /\ m_proof.is_some
     /\ m_root = root(m_tree)
     /\ Len(m_proof.siblings) # Depth(m_tree))
        => ~verify_proof(m_root, m_proof)

SingleChange ==
    /\ m_pc = "proved"
    /\ m_proof.is_some
    /\ m_proof'.is_some
    /\ m_proof'.leaf_index = m_proof.leaf_index
    /\ Len(m_proof'.siblings) = Len(m_proof.siblings)
    /\ LET changed == {k \in 1..Len(m_proof.siblings) :
                         m_proof'.siblings[k] # m_proof.siblings[k]}
           n_changed == Cardinality(changed)
                        + (IF m_proof'.leaf_hash # m_proof.leaf_hash THEN 1 ELSE 0)
                        + (IF m_root' # m_root THEN 1 ELSE 0)
       IN n_changed = 1

\* C9: from a proof and root that verify, changing the leaf hash, any one
\* sibling hash or the root makes verify_proof return false.
C9_TamperDetected ==
    [][(verify_proof(m_root, m_proof) /\ SingleChange)
          => ~verify_proof(m_root', m_proof')]_vars

C9_Witness ==
    /\ Len(m_log) = 3
    /\ m_log[1] = "verify_true"
    /\ m_log[2] = "TamperSibling"
    /\ m_log[3] = "verify_false"
    /\ Len(m_proof.siblings) = 2

\* C10: the tree is complete with next_power_of_two(|L|) leaf slots, the
\* real leaves in order followed by zero leaves, every inner node the hash
\* of its two children; no leaves give the zero root, one leaf is the root.
C10_TreeShape ==
    (m_pc # "new") =>
        LET n == Len(m_leaves)
            nodes == m_tree.nodes
            slots == LeafSlots(m_tree)
            leaf_start == slots - 1
        IN /\ m_tree.num_leaves = n
           /\ Len(nodes) = 2 * slots - 1
           /\ IsPowerOfTwo(slots)
           /\ slots >= n
           /\ \A p \in 1..(slots - 1) : IsPowerOfTwo(p) => p < n
           /\ \A k \in 1..slots :
                 nodes[leaf_start + k] = IF k <= n THEN m_leaves[k] ELSE ZeroHash
           /\ \A i \in 1..leaf_start :
                 nodes[i] = sha3_256(nodes[2 * i] \o nodes[2 * i + 1])
           /\ (n = 0 => root(m_tree) = ZeroHash)
           /\ (n = 1 => root(m_tree) = m_leaves[1])

C10_Witness ==
    /\ m_pc = "built"
    /\ Len(m_leaves) = 3
    /\ Len(m_tree.nodes) = 7
    /\ m_tree.nodes[7] = ZeroHash
    /\ m_leaves[3] # ZeroHash

\* ================================================== signing entry points
FnKeeps == UNCHANGED <<mvars, pvars, xvars>>

\* aggregate_sign on the first ns secret keys and the first np public keys of
\* a committee of n
CallAggregateSign(n, ns, np, m, t) ==
    /\ f_call = NoFn
    /\ ns <= n
    /\ np <= n
    /\ LET keys == setup(n, 0)
           sks == SubSeq(keys.secret_keys, 1, ns)
           pks == SubSeq(keys.public_keys, 1, np)
       IN f_call' = [fn |-> "aggregate_sign",
                     args |-> [sks |-> sks, pks |-> pks, msg |-> m, threshold |-> t,
                               pk_root |-> keys.pk_root,
                               committee |-> keys.public_keys],
                     out |-> aggregate_sign(sks, pks, m, t, n)]
    /\ FnKeeps

\* sign_single with the secret key of member i and the public key of member j
CallSignSingle(n, i, j, m) ==
    /\ f_call = NoFn
    /\ i \in 1..n
    /\ j \in 1..n
    /\ LET keys == setup(n, 0)
           pks == keys.public_keys
       IN f_call' = [fn |-> "sign_single",
                     args |-> [sk |-> keys.secret_keys[i], pk |-> pks[j], pks |-> pks,
                               msg |-> m, pk_root |-> keys.pk_root],
                     out |-> sign_single(keys.secret_keys[i], pks[j], pks, m, n)]
    /\ FnKeeps

\* Signature::new is public: the caller rebuilds returned signature k with
\* another nonce, then calls verify_single and aggregate_proofs on it
ReplaceNonce(k) ==
    /\ f_call.fn = "aggregate_sign"
    /\ Len(f_call.out.signatures) = Len(f_call.out.proofs)
    /\ k \in 1..Len(f_call.out.signatures)
    /\ LET a == f_call.args
           sig == f_call.out.signatures[k]
           changed == Signature_new(sig.bytes, sig.signer_index, RandomBytes32(0))
           sigs == [f_call.out.signatures EXCEPT ![k] = changed]
       IN f_call' = [fn |-> "replace_nonce",
                     args |-> [original |-> sig, changed |-> changed],
                     out |-> [verify_single |->
                                  verify_single(a.pks[sig.signer_index + 1], a.msg, changed),
                              aggregate_proofs |->
                                  aggregate_proofs(sigs, f_call.out.proofs, a.pk_root,
                                                   a.msg, a.committee)]]
    /\ FnKeeps

ReplaceNonceSingle ==
    /\ f_call.fn = "sign_single"
    /\ f_call.out.is_some
    /\ LET a == f_call.args
           sig == f_call.out.signature
           changed == Signature_new(sig.bytes, sig.signer_index, RandomBytes32(0))
       IN f_call' = [fn |-> "replace_nonce",
                     args |-> [original |-> sig, changed |-> changed],
                     out |-> [verify_single |->
                                  verify_single(a.pks[sig.signer_index + 1], a.msg, changed),
                              aggregate_proofs |->
                                  aggregate_proofs(<<changed>>, <<f_call.out.proof>>,
                                                   a.pk_root, a.msg, a.pks)]]
    /\ FnKeeps

NextSign ==
    \/ \E n \in 0..MaxN, ns \in 0..MaxN, np \in 0..MaxN, m \in Msgs, t \in 0..(MaxN + 1) :
          CallAggregateSign(n, ns, np, m, t)
    \/ \E n \in 1..MaxN, i \in 1..MaxN, j \in 1..MaxN, m \in Msgs : CallSignSingle(n, i, j, m)
    \/ \E k \in 1..MaxN : ReplaceNonce(k)
    \/ ReplaceNonceSingle

SpecSign == Init /\ [][NextSign]_vars

\* C11: aggregate_sign returns exactly t = min(threshold, |sks|, |pks|)
\* signatures and t Merkle proofs (none when t = 0), and for every k < t
\* signatures[k].signer_index = proofs[k].leaf_index = k and
\* proofs[k].leaf_hash = hash(pks[k]).
C11_SignReturnsParallelLists ==
    f_call.fn = "aggregate_sign"
    => LET a == f_call.args
           t == Min(a.threshold, Min(Len(a.sks), Len(a.pks)))
       IN /\ Len(f_call.out.signatures) = t
          /\ Len(f_call.out.proofs) = t
          /\ \A k \in 1..t :
                /\ f_call.out.signatures[k].signer_index = k - 1
                /\ f_call.out.proofs[k].leaf_index = k - 1
                /\ f_call.out.proofs[k].leaf_hash = sha3_256(a.pks[k].bytes)

C11_Witness ==
    /\ f_call.fn = "aggregate_sign"
    /\ Len(f_call.args.sks) = 3
    /\ Len(f_call.args.pks) = 2
    /\ f_call.args.threshold = 3
    /\ Len(f_call.out.signatures) = 2
    /\ Len(f_call.out.proofs) = 2

\* C12: a signature returned by aggregate_sign or sign_single is bound to
\* its nonce: with the nonce field replaced by another 32-byte value it no
\* longer passes verify_single and aggregate_proofs rejects it.
C12_NonceBound ==
    f_call.fn = "replace_nonce"
    => /\ f_call.args.changed.nonce # f_call.args.original.nonce
       /\ ~f_call.out.verify_single
       /\ f_call.out.aggregate_proofs.kind # "Ok"

\* ============================================ ZKSNARKProof wire format
WIRE_VERSION == 2

WIRE_HEADER_LEN == 39

u32_from_le_bytes(b0, b1, b2, b3) ==
    b0[1] + 256 * b1[1] + 65536 * b2[1] + 16777216 * b3[1]

\* [version:1][num_sigs:2][inputs_hash:32][proof_len:4][proof_bytes:N];
\* le_bytes(v, w) keeps the low w bytes of v, as the casts to u16 and u32 do
to_bytes(proof) ==
    <<Byte(WIRE_VERSION)>>
        \o le_bytes(proof.num_signatures % 65536, 2)
        \o proof.public_inputs_hash
        \o le_bytes(Len(proof.proof_bytes), 4)
        \o proof.proof_bytes

None == [kind |-> "None", proof |-> NoProof]

Some(proof) == [kind |-> "Some", proof |-> proof]

Panic == [kind |-> "panic", proof |-> NoProof]

from_bytes_prefix(bytes) ==
    IF Len(bytes) < WIRE_HEADER_LEN THEN None
    ELSE IF bytes[1] # Byte(WIRE_VERSION) THEN None
    ELSE LET proof_len == u32_from_le_bytes(bytes[36], bytes[37], bytes[38], bytes[39])
         IN IF Len(bytes) < WIRE_HEADER_LEN + proof_len THEN None
            ELSE Some(ZKSNARKProof_new(Slice(bytes, WIRE_HEADER_LEN,
                                             WIRE_HEADER_LEN + proof_len),
                                       u16_from_le_bytes(bytes[2], bytes[3]),
                                       Slice(bytes, 3, 35)))

from_bytes(bytes) ==
    IF Len(bytes) < WIRE_HEADER_LEN THEN None
    ELSE IF ~InBounds(bytes, 0) THEN Panic
    ELSE IF bytes[1] # Byte(WIRE_VERSION) THEN None
    ELSE IF ~InBounds(bytes, 2) \/ ~SliceInBounds(bytes, 3, 35) \/ ~InBounds(bytes, 38)
    THEN Panic
    ELSE LET num_signatures == u16_from_le_bytes(bytes[2], bytes[3])
             public_inputs_hash == Slice(bytes, 3, 35)
             proof_len == u32_from_le_bytes(bytes[36], bytes[37], bytes[38], bytes[39])
         IN IF Len(bytes) # WIRE_HEADER_LEN + proof_len THEN None
            ELSE IF ~SliceInBounds(bytes, WIRE_HEADER_LEN, Len(bytes)) THEN Panic
            ELSE Some(ZKSNARKProof_new(Slice(bytes, WIRE_HEADER_LEN, Len(bytes)),
                                       num_signatures, public_inputs_hash))

\* proofs handed to ZKSNARKProof::new, which accepts any field values
WireCounts == {0, 1, 2, 255, 256, 65535, 65536, 65537}

WireBodies == {<<>>, <<Byte(0)>>, <<Byte(1), Byte(2), Byte(3)>>, ZeroHash \o WrongRoot}

WireHashes == {ZeroHash, WrongRoot, RandomBytes32(1)}

WireDamage == {"empty", "short", "header_cut", "version", "count", "len_plus",
               "len_minus", "append", "drop_last"}

Damaged(bytes, kind) ==
    LET stored == u32_from_le_bytes(bytes[36], bytes[37], bytes[38], bytes[39])
    IN CASE kind = "empty" -> <<>>
         [] kind = "short" -> SubSeq(bytes, 1, 10)
         [] kind = "header_cut" -> SubSeq(bytes, 1, WIRE_HEADER_LEN - 1)
         [] kind = "version" -> SetByte(bytes, 0, 1)
         [] kind = "count" -> SetByte(bytes, 1, (bytes[2][1] + 1) % 256)
         [] kind = "len_plus" -> SetByte(bytes, 35, (stored + 1) % 256)
         [] kind = "len_minus" -> SetByte(bytes, 35, (stored + 255) % 256)
         [] kind = "append" -> Append(bytes, Byte(0))
         [] kind = "drop_last" -> SubSeq(bytes, 1, Len(bytes) - 1)

ToBytes(num_signatures, body, hash) ==
    /\ f_call = NoFn
    /\ LET proof == ZKSNARKProof_new(body, num_signatures, hash)
       IN f_call' = [fn |-> "to_bytes", args |-> [proof |-> proof],
                     out |-> to_bytes(proof), damaged |-> FALSE]
    /\ FnKeeps

Damage(kind) ==
    /\ f_call.fn = "to_bytes"
    /\ ~f_call.damaged
    /\ f_call' = [f_call EXCEPT !.out = Damaged(f_call.out, kind), !.damaged = TRUE]
    /\ FnKeeps

FromBytes ==
    /\ f_call.fn = "to_bytes"
    /\ f_call' = [fn |-> "from_bytes",
                  args |-> [proof |-> f_call.args.proof, bytes |-> f_call.out],
                  out |-> from_bytes(f_call.out), damaged |-> f_call.damaged]
    /\ FnKeeps

NextWire ==
    \/ \E c \in WireCounts, b \in WireBodies, h \in WireHashes : ToBytes(c, b, h)
    \/ \E kind \in WireDamage : Damage(kind)
    \/ FromBytes

SpecWire == Init /\ [][NextWire]_vars

\* C13: for any constructed proof p, from_bytes(to_bytes(p)) is a proof with
\* the same num_signatures, public_inputs_hash and body bytes as p.
C13_WireRoundTrip ==
    (f_call.fn = "from_bytes" /\ ~f_call.damaged)
    => /\ f_call.out.kind = "Some"
       /\ f_call.out.proof.num_signatures = f_call.args.proof.num_signatures
       /\ f_call.out.proof.public_inputs_hash = f_call.args.proof.public_inputs_hash
       /\ f_call.out.proof.proof_bytes = f_call.args.proof.proof_bytes

\* the body length a buffer of at least 39 bytes stores in bytes 35..39
StoredLen(bytes) ==
    bytes[36][1] + 256 * bytes[37][1] + 65536 * bytes[38][1] + 16777216 * bytes[39][1]

WellFormed(bytes) ==
    /\ Len(bytes) >= 39
    /\ bytes[1] = <<2>>
    /\ Len(bytes) = 39 + StoredLen(bytes)

\* C14: from_bytes never panics; it returns None for a buffer shorter than
\* 39 bytes, with a first byte other than 0x02, or whose length is not 39
\* plus the stored body length; for every other buffer it returns the proof
\* whose fields are the ones stored in the buffer.
C14_FromBytesTotal ==
    f_call.fn = "from_bytes"
    => LET bytes == f_call.args.bytes
       IN /\ f_call.out.kind # "panic"
          /\ ~WellFormed(bytes) => f_call.out.kind = "None"
          /\ WellFormed(bytes) =>
                /\ f_call.out.kind = "Some"
                /\ f_call.out.proof.num_signatures = bytes[2][1] + 256 * bytes[3][1]
                /\ f_call.out.proof.public_inputs_hash = SubSeq(bytes, 4, 35)
                /\ f_call.out.proof.proof_bytes = SubSeq(bytes, 40, Len(bytes))

C14_Witness ==
    /\ f_call.fn = "from_bytes"
    /\ f_call.damaged
    /\ Len(f_call.args.bytes) >= 39
    /\ Len(f_call.args.bytes) > 39 + StoredLen(f_call.args.bytes)
    /\ f_call.args.bytes[1] = <<2>>
    /\ f_call.out.kind = "None"

\* ================================================= threshold policies
\* committee sizes handed to verify_with_policy: small ones and 2^58
PolicyValidators == {U64(0), U64(1), U64(3), U64(10), U64(300), <<0, 0, 0, 1024>>}

PolicySet ==
    [kind : {"Fixed", "AtLeast"}, value : 0..(MaxN + 1)]
        \cup [kind : {"Percentage"}, value : {0, 1, 34, 64, 67, 100, 255}]
        \cup [kind : {"Tiered"}, value : 0..4]

CallAdaptiveThreshold(n, security_level) ==
    /\ f_call = NoFn
    /\ f_call' = [fn |-> "calculate_adaptive_threshold",
                  args |-> [n |-> n, security_level |-> security_level],
                  out |-> calculate_adaptive_threshold(n, security_level)]
    /\ FnKeeps

\* the proof t members of a committee of MaxN make for Transaction
BuildPolicyProof(t) ==
    /\ f_call = NoFn
    /\ LET keys == setup(MaxN, 0)
           signed == aggregate_sign(keys.secret_keys, keys.public_keys, Transaction, t, MaxN)
       IN f_call' = [fn |-> "aggregate_proofs",
                     args |-> [pk_root |-> keys.pk_root],
                     out |-> aggregate_proofs(signed.signatures, signed.proofs, keys.pk_root,
                                              Transaction, keys.public_keys)]
    /\ FnKeeps

CallVerifyWithPolicy(m, total_validators, policy, overflow_checks) ==
    /\ f_call.fn = "aggregate_proofs"
    /\ f_call.out.kind = "Ok"
    /\ policy.kind = "Tiered" => U64Small(total_validators)
    /\ LET pk_root == f_call.args.pk_root
           proof == f_call.out.proof
       IN f_call' = [fn |-> "verify_with_policy",
                     args |-> [pk_root |-> pk_root, msg |-> m, proof |-> proof,
                               total_validators |-> total_validators, policy |-> policy,
                               overflow_checks |-> overflow_checks],
                     out |-> verify_with_policy(pk_root, m, proof, total_validators,
                                                policy, overflow_checks)]
    /\ FnKeeps

NextPolicy ==
    \/ \E n \in 0..MaxValidators, security_level \in 0..4 :
          CallAdaptiveThreshold(n, security_level)
    \/ \E t \in 1..MaxN : BuildPolicyProof(t)
    \/ \E m \in Msgs, total_validators \in PolicyValidators,
          policy \in PolicySet, overflow_checks \in BOOLEAN :
          CallVerifyWithPolicy(m, total_validators, policy, overflow_checks)

SpecPolicy == Init /\ [][NextPolicy]_vars

\* t >= ceil(n * p / 100) over the integers, n given as limbs
ExactPercentHolds(t, n, pct) ==
    IF U64Small(n) THEN t >= CeilDiv(U64ToInt(n) * pct, 100)
    ELSE pct = 0

\* C15: verify_with_policy returns true exactly when verify is true and the
\* policy holds for t = proof.num_signatures: Fixed(r) t = r, AtLeast(r)
\* t >= r, Percentage(p) t >= ceil(n*p/100), Tiered{level}
\* t >= calculate_adaptive_threshold(n, level).
C15_PolicyDecision ==
    f_call.fn = "verify_with_policy"
    => LET a == f_call.args
           t == a.proof.num_signatures
           holds == CASE a.policy.kind = "Fixed" -> t = a.policy.value
                      [] a.policy.kind = "AtLeast" -> t >= a.policy.value
                      [] a.policy.kind = "Percentage" ->
                             ExactPercentHolds(t, a.total_validators, a.policy.value)
                      [] a.policy.kind = "Tiered" ->
                             t >= calculate_adaptive_threshold(
                                      U64ToInt(a.total_validators), a.policy.value)
       IN f_call.out = IF verify(a.pk_root, a.msg, a.proof) = "true" /\ holds
                       THEN "true" ELSE "false"

ExactRatioPercent(level) ==
    CASE level = 1 -> 51 [] level = 2 -> 67 [] level = 3 -> 75 [] OTHER -> 67

\* C16: calculate_adaptive_threshold(n, level) is 0 for n = 0 and otherwise
\* ceil(n * ratio) clamped into [1, n], ratio 0.51, 0.67, 0.75 for levels
\* 1, 2, 3 and 0.67 for any other level; so (5,1) gives 3, (5,2) gives 4,
\* (5,3) gives 4 and (10,2) gives 7.
C16_AdaptiveThreshold ==
    f_call.fn = "calculate_adaptive_threshold"
    => LET n == f_call.args.n
           exact == CeilDiv(n * ExactRatioPercent(f_call.args.security_level), 100)
       IN /\ n = 0 => f_call.out = 0
          /\ n >= 1 => /\ f_call.out \in 1..n
                       /\ f_call.out = Min(IF exact < 1 THEN 1 ELSE exact, n)
          /\ (n = 5 /\ f_call.args.security_level = 1) => f_call.out = 3
          /\ (n = 5 /\ f_call.args.security_level = 2) => f_call.out = 4
          /\ (n = 5 /\ f_call.args.security_level = 3) => f_call.out = 4
          /\ (n = 10 /\ f_call.args.security_level = 2) => f_call.out = 7

\* ================================================== committee rotation
NoRotation == RotationProof_new(ZeroHash, ZeroHash, NoProof, 0)

create_rotation_proof(old_sks, old_pks, old_root, new_root, epoch, threshold, rng0) ==
    LET signed == aggregate_sign(old_sks, old_pks, new_root, threshold, rng0)
        zksnark == aggregate_proofs(signed.signatures, signed.proofs, old_root, new_root,
                                    old_pks)
    IN IF zksnark.kind # "Ok"
       THEN [kind |-> zksnark.kind, rotation |-> NoRotation]
       ELSE [kind |-> "Ok",
             rotation |-> RotationProof_new(old_root, new_root, zksnark.proof, epoch)]

\* roots of the incoming committee: a second setup, and a constant
NewRoots == {setup(2, MaxN).pk_root, WrongRoot}

CreateRotationProof(n, t, new_root, epoch) ==
    /\ f_call = NoFn
    /\ LET old == setup(n, 0)
       IN f_call' = [fn |-> "create_rotation_proof",
                     args |-> [n |-> n, old_root |-> old.pk_root, new_root |-> new_root,
                               epoch |-> epoch, threshold |-> t],
                     out |-> create_rotation_proof(old.secret_keys, old.public_keys,
                                                   old.pk_root, new_root, epoch, t,
                                                   MaxN + 2)]
    /\ FnKeeps

CallVerifyRotationProof(trusted_root) ==
    /\ f_call.fn = "create_rotation_proof"
    /\ f_call.out.kind = "Ok"
    /\ f_call' = [fn |-> "verify_rotation_proof",
                  args |-> [created |-> f_call.args, rotation |-> f_call.out.rotation,
                            current_trusted_root |-> trusted_root],
                  out |-> verify_rotation_proof(f_call.out.rotation, trusted_root)]
    /\ FnKeeps

\* verify_rotation_proof on a rotation, sound or with a damaged proof, and on
\* its copy under another epoch
RotationDamage == {"none", "hash", "bitmap"}

OtherEpochs == {0, 1, 7}

CallVerifyOtherEpoch(trusted_root, kind, epoch) ==
    /\ f_call.fn = "create_rotation_proof"
    /\ f_call.out.kind = "Ok"
    /\ epoch # f_call.out.rotation.epoch
    /\ LET made == f_call.out.rotation
           rotation == IF kind = "none" THEN made
                       ELSE [made EXCEPT !.proof = Malformed(made.proof, kind)]
           other == [rotation EXCEPT !.epoch = epoch]
       IN f_call' = [fn |-> "verify_other_epoch",
                     args |-> [rotation |-> rotation, other |-> other,
                               current_trusted_root |-> trusted_root],
                     out |-> [before |-> verify_rotation_proof(rotation, trusted_root),
                              after |-> verify_rotation_proof(other, trusted_root)]]
    /\ FnKeeps

NextRotation ==
    \/ \E n \in 1..MaxN, t \in 0..(MaxN + 1), new_root \in NewRoots, epoch \in 0..2 :
          CreateRotationProof(n, t, new_root, epoch)
    \/ \E n \in 1..MaxN, kind \in RotationDamage, epoch \in OtherEpochs :
          \/ CallVerifyOtherEpoch(setup(n, 0).pk_root, kind, epoch)
          \/ CallVerifyOtherEpoch(WrongRoot, kind, epoch)
    \/ \E new_root \in NewRoots :
          \/ CallVerifyRotationProof(new_root)
          \/ CallVerifyRotationProof(ZeroHash)
    \/ \E n \in 1..MaxN : CallVerifyRotationProof(setup(n, 0).pk_root)

SpecRotation == Init /\ [][NextRotation]_vars

\* C17: for 1 <= t <= n, create_rotation_proof returns a RotationProof with
\* the given old_root, new_root and epoch, and verify_rotation_proof on it is
\* true for trusted_root = old_root and false for every other trusted root.
C17_RotationVerifies ==
    /\ (f_call.fn = "create_rotation_proof"
            /\ f_call.args.threshold \in 1..f_call.args.n)
       => /\ f_call.out.kind = "Ok"
          /\ f_call.out.rotation.old_root = f_call.args.old_root
          /\ f_call.out.rotation.new_root = f_call.args.new_root
          /\ f_call.out.rotation.epoch = f_call.args.epoch
    /\ (f_call.fn = "verify_rotation_proof"
            /\ f_call.args.created.threshold \in 1..f_call.args.created.n)
       => /\ f_call.args.current_trusted_root = f_call.args.created.old_root
                => f_call.out = "true"
          /\ f_call.args.current_trusted_root # f_call.args.rotation.old_root
                => f_call.out = "false"

C17_Witness ==
    /\ f_call.fn = "verify_rotation_proof"
    /\ f_call.args.created.n = 3
    /\ f_call.args.created.threshold = 2
    /\ f_call.args.current_trusted_root # f_call.args.rotation.old_root
    /\ f_call.args.current_trusted_root # ZeroHash
    /\ f_call.out = "false"

\* ====================================================== super proofs
MaxBatch == 3

\* proofs as ZKSNARKProof::new builds them, the last with the largest count
\* a usize holds
BatchPool ==
    {ZKSNARKProof_new(<<Byte(1)>>, 2, RandomBytes32(60)),
     ZKSNARKProof_new(<<Byte(2), Byte(3)>>, 3, RandomBytes32(61)),
     ZKSNARKProof_new(<<>>, 0, ZeroHash),
     ZKSNARKProof_new(<<Byte(4)>>, -1, RandomBytes32(62))}

BatchLists == UNION {[1..k -> BatchPool] : k \in 0..MaxBatch}

HashesOf(proofs) == [k \in 1..Len(proofs) |-> proofs[k].public_inputs_hash]

\* hash lists a verifier may hold for a batch
HashLists(proofs) ==
    {HashesOf(proofs), <<>>, HashesOf(proofs) \o <<ZeroHash>>,
     HashesOf(SubSeq(proofs, 1, Len(proofs) - 1))}
      \cup {[HashesOf(proofs) EXCEPT ![k] = WrongRoot] : k \in 1..Len(proofs)}
      \cup {[k \in 1..Len(proofs) |-> HashesOf(proofs)[Len(proofs) + 1 - k]]}

CallAggregateZkProofs(proofs, overflow_checks) ==
    /\ f_call = NoFn
    /\ f_call' = [fn |-> "aggregate_zk_proofs",
                  args |-> [proofs |-> proofs],
                  out |-> aggregate_zk_proofs(proofs, overflow_checks)]
    /\ FnKeeps

CallVerifySuperProof ==
    /\ f_call.fn = "aggregate_zk_proofs"
    /\ f_call.out.kind = "Ok"
    /\ \E batch_hashes \in HashLists(f_call.args.proofs) :
          f_call' = [fn |-> "verify_super_proof",
                     args |-> [proofs |-> f_call.args.proofs,
                               super_proof |-> f_call.out.super_proof,
                               batch_hashes |-> batch_hashes],
                     out |-> verify_super_proof(f_call.out.super_proof, batch_hashes)]
    /\ FnKeeps

NextSuper ==
    \/ \E proofs \in BatchLists, overflow_checks \in BOOLEAN :
          CallAggregateZkProofs(proofs, overflow_checks)
    \/ CallVerifySuperProof

SpecSuper == Init /\ [][NextSuper]_vars

\* the sum of the counts as written, and how many of them are in the upper
\* range; the exact sum fits a usize when none is, or when one is and the
\* written sum is still negative
RECURSIVE WrittenSum(_, _)
WrittenSum(proofs, k) ==
    IF k = 0 THEN 0 ELSE WrittenSum(proofs, k - 1) + proofs[k].num_signatures

UpperCounts(proofs) == Cardinality({k \in 1..Len(proofs) : proofs[k].num_signatures < 0})

SumFitsUsize(proofs) ==
    \/ UpperCounts(proofs) = 0
    \/ UpperCounts(proofs) = 1 /\ WrittenSum(proofs, Len(proofs)) < 0

\* C18: for a non-empty list ps, aggregate_zk_proofs returns a SuperProof
\* whose batch_hashes are the public_inputs_hash of ps in order and whose
\* total_signatures is the sum of the counts; verify_super_proof on it is
\* true exactly for that hash list; the empty list gives InvalidInput.
C18_SuperProofBatches ==
    /\ (f_call.fn = "aggregate_zk_proofs" /\ Len(f_call.args.proofs) = 0)
       => f_call.out.kind = "InvalidInput"
    /\ (f_call.fn = "aggregate_zk_proofs" /\ Len(f_call.args.proofs) > 0)
       => /\ f_call.out.kind = "Ok"
          /\ f_call.out.super_proof.batch_hashes = HashesOf(f_call.args.proofs)
          /\ SumFitsUsize(f_call.args.proofs)
          /\ f_call.out.super_proof.total_signatures
                = UsizeLimbs(WrittenSum(f_call.args.proofs, Len(f_call.args.proofs)))
    /\ f_call.fn = "verify_super_proof"
       => (f_call.out = "true"
             <=> f_call.args.batch_hashes = f_call.args.super_proof.batch_hashes)

\* ================================================ secret-key memory
Zeroed(bytes) == [k \in 1..Len(bytes) |-> Byte(0)]

KeyKeeps == UNCHANGED <<mvars, pvars, fvars, rvars, tvars>>

\* the signers' SecretKey values come into being (setup)
HoldKeys(n) ==
    /\ k_pc = "new"
    /\ k_pc' = "held"
    /\ k_sks' = [i \in 1..n |-> Buffer(setup(n, 0).secret_keys[i].bytes, "live")]
    /\ UNCHANGED <<k_call, k_stack>>
    /\ KeyKeeps

AllLive == \A i \in 1..Len(k_sks) : k_sks[i].scope = "live"

\* aggregate_sign(&sks, &pks, msg, threshold): t == 0 returns at once
EnterAggregateSign(threshold) ==
    /\ k_pc = "held"
    /\ AllLive
    /\ LET t == Min(threshold, Len(k_sks))
       IN /\ k_call' = [fn |-> "aggregate_sign", i |-> 0, t |-> t]
          /\ k_pc' = IF t = 0 THEN "held" ELSE "signing"
    /\ UNCHANGED <<k_sks, k_stack>>
    /\ KeyKeeps

\* sign_single(&sks[i], ...): one call of sign_with_dilithium
EnterSignSingle(i) ==
    /\ k_pc = "held"
    /\ AllLive
    /\ i < Len(k_sks)
    /\ k_call' = [fn |-> "sign_single", i |-> i, t |-> i + 1]
    /\ k_pc' = "signing"
    /\ UNCHANGED <<k_sks, k_stack>>
    /\ KeyKeeps

\* let mut secret_bytes = [0u8; SECRETKEYBYTES]
AllocSecretBytes ==
    /\ k_pc = "signing"
    /\ k_call.i < k_call.t
    /\ k_stack' = [k_stack EXCEPT
                     !["secret_bytes"] = Buffer(Zeroed(k_sks[k_call.i + 1].bytes), "live")]
    /\ k_pc' = "allocated"
    /\ UNCHANGED <<k_call, k_sks>>
    /\ KeyKeeps

\* secret_bytes[..].copy_from_slice(sk.as_bytes())
CopySecretBytes ==
    /\ k_pc = "allocated"
    /\ k_stack' = [k_stack EXCEPT !["secret_bytes"].bytes = k_sks[k_call.i + 1].bytes]
    /\ k_pc' = "copied"
    /\ UNCHANGED <<k_call, k_sks>>
    /\ KeyKeeps

\* let raw = RawKeypair { public, secret: secret_bytes }: the array is Copy;
\* the build either gives raw its own storage or builds it in place
BuildRawKeypair(in_place) ==
    /\ k_pc = "copied"
    /\ k_stack' = IF in_place THEN k_stack
                  ELSE [k_stack EXCEPT
                          !["raw"] = Buffer(k_stack["secret_bytes"].bytes, "live")]
    /\ k_pc' = "raw"
    /\ UNCHANGED <<k_call, k_sks>>
    /\ KeyKeeps

\* let keypair: Keypair = transmute(raw): a move, in place or to new storage
TransmuteKeypair(in_place) ==
    /\ k_pc = "raw"
    /\ k_stack' = IF in_place THEN k_stack
                  ELSE [k_stack EXCEPT
                          !["keypair"] = Buffer(k_stack["secret_bytes"].bytes, "live")]
    /\ k_pc' = "keypair"
    /\ UNCHANGED <<k_call, k_sks>>
    /\ KeyKeeps

\* keypair.sign(msg).to_vec() and return: the locals are plain arrays and
\* Copy structs, nothing runs when their scope ends
ReturnSignature ==
    /\ k_pc = "keypair"
    /\ k_stack' = [b \in StackLocals |->
                     IF k_stack[b].scope = "live"
                     THEN Buffer(k_stack[b].bytes, "ended") ELSE k_stack[b]]
    /\ k_call' = [k_call EXCEPT !.i = k_call.i + 1]
    /\ k_pc' = "signing"
    /\ UNCHANGED k_sks
    /\ KeyKeeps

\* the loop of aggregate_sign is over, or sign_single returns
ReturnSigned ==
    /\ k_pc = "signing"
    /\ k_call.i >= k_call.t
    /\ k_pc' = "held"
    /\ UNCHANGED <<k_call, k_sks, k_stack>>
    /\ KeyKeeps

\* a SecretKey goes out of scope: ZeroizeOnDrop wipes its bytes
DropSecretKey(i) ==
    /\ k_pc = "held"
    /\ i \in 1..Len(k_sks)
    /\ k_sks[i].scope = "live"
    /\ k_sks' = [k_sks EXCEPT ![i] = Buffer(Zeroed(k_sks[i].bytes), "ended")]
    /\ UNCHANGED <<k_pc, k_call, k_stack>>
    /\ KeyKeeps

NextKeyMemory ==
    \/ \E n \in 1..MaxN : HoldKeys(n)
    \/ \E threshold \in 0..MaxN : EnterAggregateSign(threshold)
    \/ \E i \in 0..(MaxN - 1) : EnterSignSingle(i)
    \/ AllocSecretBytes
    \/ CopySecretBytes
    \/ \E in_place \in BOOLEAN : BuildRawKeypair(in_place)
    \/ \E in_place \in BOOLEAN : TransmuteKeypair(in_place)
    \/ ReturnSignature
    \/ ReturnSigned
    \/ \E i \in 1..MaxN : DropSecretKey(i)

SpecKeyMemory == Init /\ [][NextKeyMemory]_vars

\* C19: every buffer that held secret-key bytes, the SecretKey values and
\* the copies made while signing, is all zero once its owning scope has ended.
C19_SecretsWiped ==
    /\ \A i \in 1..Len(k_sks) :
          k_sks[i].scope = "ended" => k_sks[i].bytes = Zeroed(k_sks[i].bytes)
    /\ \A b \in StackLocals :
          k_stack[b].scope = "ended" => k_stack[b].bytes = Zeroed(k_stack[b].bytes)

\* ================================================== CausalGuardRuntime
MaxProposals == 2
MaxUpdates == 1
MaxThreshold == 1

Put(map, key, value) ==
    [x \in DOMAIN map \cup {key} |-> IF x = key THEN value ELSE map[x]]

\* a payload vec![fill; len]
Payload(fill, len) == [fill |-> fill, len |-> len]

EVENT_VERSION_LEGACY == 1

\* the bytes of vec![fill; len]
PayloadBytes(payload) == [k \in 1..payload.len |-> Byte(payload.fill)]

hash_data(data) == sha3_256(data)

compute_fingerprint_v1(nonce, timestamp, action_type, payload_hash) ==
    sha3_256(le_bytes(nonce, 8) \o le_bytes(timestamp, 8) \o <<Byte(action_type)>>
               \o payload_hash)

\* agent_id is the byte every one of the 32 bytes of the identifier holds
CausalEvent_new(nonce, timestamp, agent_id, action_type, payload) ==
    LET payload_hash == hash_data(PayloadBytes(payload))
    IN [version |-> EVENT_VERSION_LEGACY, nonce |-> nonce, timestamp |-> timestamp,
        agent_id |-> agent_id, action_type |-> action_type,
        payload_hash |-> payload_hash, metadata_commitment |-> ZeroHash,
        behavioral_fingerprint |->
            compute_fingerprint_v1(nonce, timestamp, action_type, payload_hash)]

to_leaf(event) == sha3_256(le_bytes(event.nonce, 8) \o event.behavioral_fingerprint)

IncrementalMerkleTree_insert(tree, leaf) ==
    [leaves |-> Append(tree.leaves, leaf),
     current_root |-> root(from_leaves(Append(tree.leaves, leaf)))]

\* a u64 is written as an integer: one below 0 stands for 2^64 plus itself
U64Less(a, b) == IF (a < 0) = (b < 0) THEN a < b ELSE b < 0

\* timestamp + 500 in 64 bits: the wrapped value and whether the sum did not fit
AddSkew(timestamp) ==
    [value |-> timestamp + 500, overflow |-> timestamp < 0 /\ timestamp + 500 >= 0]

\* where current_time_ms + 500 does not fit u64, a build with overflow checks
\* panics and one without them compares the wrapped sum
log_event(logger, agent_id, action_type, payload, current_time_ms, overflow_checks) ==
    IF payload.len > 4096
    THEN [kind |-> "PayloadTooLarge", logger |-> logger]
    ELSE IF logger.last_timestamp # 0 /\ AddSkew(current_time_ms).overflow
                                       /\ overflow_checks
    THEN [kind |-> "panic", logger |-> logger]
    ELSE IF logger.last_timestamp # 0
              /\ U64Less(AddSkew(current_time_ms).value, logger.last_timestamp)
    THEN [kind |-> "TimestampRegression", logger |-> logger]
    ELSE LET event == CausalEvent_new(logger.last_nonce + 1, current_time_ms, agent_id,
                                      action_type, payload)
             leaf == to_leaf(event)
         IN [kind |-> "Ok", event |-> event,
             logger |-> [last_nonce |-> logger.last_nonce + 1,
                         last_timestamp |->
                             IF U64Less(logger.last_timestamp, current_time_ms)
                             THEN current_time_ms
                             ELSE logger.last_timestamp,
                         merkle_tree |->
                             IncrementalMerkleTree_insert(logger.merkle_tree, leaf),
                         leaves |-> Append(logger.leaves, leaf),
                         events |-> Append(logger.events, event)]]

get_current_root(logger) == logger.merkle_tree.current_root

get_events_range(logger, first, last) ==
    SubSeq(logger.events, first + 1, Min(last, Len(logger.events)))

\* the leaf verify_event_chain derives from an event's own fields
DerivedFingerprint(event) ==
    sha3_256(le_bytes(event.nonce, 8) \o le_bytes(event.timestamp, 8)
               \o <<Byte(event.action_type)>> \o event.payload_hash)

DerivedLeaf(event) == sha3_256(le_bytes(event.nonce, 8) \o DerivedFingerprint(event))

\* what the loop of verify_event_chain does with event i: "false" and "panic"
\* end the call, "next" goes on
VerifyEvent(events, i, overflow_checks) ==
    IF DerivedFingerprint(events[i]) # events[i].behavioral_fingerprint THEN "false"
    ELSE IF i = 1 THEN "next"
    ELSE IF ~(events[i].nonce > events[i - 1].nonce) THEN "false"
    ELSE IF AddSkew(events[i].timestamp).overflow /\ overflow_checks THEN "panic"
    ELSE IF U64Less(AddSkew(events[i].timestamp).value, events[i - 1].timestamp)
    THEN "false"
    ELSE "next"

\* "true", "false" or "panic"
verify_event_chain(events, expected_root, overflow_checks) ==
    IF Len(events) = 0
    THEN IF expected_root = ZeroHash THEN "true" ELSE "false"
    ELSE LET ended == {i \in 1..Len(events) :
                          VerifyEvent(events, i, overflow_checks) # "next"}
         IN IF ended # {}
            THEN VerifyEvent(events, CHOOSE i \in ended : \A j \in ended : i <= j,
                             overflow_checks)
            ELSE IF root(from_leaves([k \in 1..Len(events) |-> DerivedLeaf(events[k])]))
                      = expected_root
            THEN "true"
            ELSE "false"

RECURSIVE MaxNonce(_, _)
MaxNonce(events, k) ==
    IF k = 0 THEN 0
    ELSE IF events[k].nonce > MaxNonce(events, k - 1) THEN events[k].nonce
    ELSE MaxNonce(events, k - 1)

\* MinVerificationCount on an event without metadata: always enforced
evaluate_condition(threshold, events, target_nonce) ==
    Cardinality({k \in 1..Len(events) :
                   events[k].nonce < target_nonce /\ events[k].action_type = 2})
      >= threshold

\* an engine with one policy holding one MinVerificationCount condition
\* the timestamps of the runtime are current_time_ms / 1000: adding 500 to
\* one fits u64 in every build
evaluate_chain(engine, events, expected_root) ==
    IF verify_event_chain(events, expected_root, TRUE) # "true"
    THEN [kind |-> "ChainVerificationFailed"]
    ELSE IF Len(events) = 0
    THEN [kind |-> "InsufficientEvents"]
    ELSE [kind |-> "Ok",
          compliant |-> evaluate_condition(engine.threshold, events,
                                           MaxNonce(events, Len(events))),
          risk_tier |-> engine.risk_tier]

to_threshold(risk_tier) ==
    CASE risk_tier = "Low" -> 2
      [] risk_tier = "Medium" -> 3
      [] risk_tier = "High" -> 5

collect_signatures(threshold) ==
    IF threshold > 10 THEN "InsufficientSignatures" ELSE "Ok"

\* submit_unified_proof(action_id, proof, 1): the wallet reads the key of
\* the chain from the environment
submit_unified_proof(wallet_key) == IF wallet_key THEN "Ok" ELSE "WalletError"

\* SHA3-256(nonce || timestamp || agent_id)
ActionIdOf(event, agent_id) == <<event.nonce, event.timestamp, agent_id>>

\* an id no propose_action returns
ForeignId == <<0, 0, 0>>

Agents == {1, 2}
ActionTypes == {0, 1, 2, 6}
Payloads == {Payload(1, 1), Payload(1, 4097)}
Times == {1000, 8000}
Statuses == {"Pending", "Compliant", "Rejected", "Signed", "Submitted", "Confirmed",
             "Failed"}

RuntimeKeeps == UNCHANGED <<mvars, pvars, fvars, kvars, tvars>>

NewRuntime(threshold, wallet_key) ==
    /\ r_pc = "new"
    /\ r_pc' = "running"
    /\ r_engine' = [threshold |-> threshold, risk_tier |-> "High"]
    /\ r_wallet_key' = wallet_key
    /\ UNCHANGED <<r_logger, r_status, r_orch, r_rate, r_idem, r_ret, r_proposed,
                   r_cleared, r_sign_asked, r_submit_asked, r_updates>>
    /\ RuntimeKeeps

\* an idempotency lookup that finds nothing
Cached_never(key) == FALSE

\* idempotency_cache.get(&(agent_id, payload_hash)) is Some
Cached(key) == key \in DOMAIN r_idem

ProposeAction(agent_id, action_type, payload, current_time_ms) ==
    /\ r_pc = "running"
    /\ Len(r_logger.events) < MaxProposals
    /\ LET key == <<agent_id, payload>>
           logged == log_event(r_logger, agent_id, action_type, payload,
                               current_time_ms \div 1000, TRUE)
           action_id == ActionIdOf(logged.event, agent_id)
       IN IF Cached(key)
          THEN /\ r_ret' = [kind |-> "Ok", action_id |-> r_idem[key]]
               /\ UNCHANGED <<r_logger, r_status, r_orch, r_rate, r_idem, r_proposed>>
          ELSE IF payload.len > 4096
          THEN /\ r_ret' = [kind |-> "PayloadTooLarge"]
               /\ UNCHANGED <<r_logger, r_status, r_orch, r_rate, r_idem, r_proposed>>
          ELSE IF action_type = 0 \/ action_type > 5
          THEN /\ r_ret' = [kind |-> "InvalidActionType"]
               /\ UNCHANGED <<r_logger, r_status, r_orch, r_rate, r_idem, r_proposed>>
          ELSE IF agent_id \in DOMAIN r_rate /\ current_time_ms < r_rate[agent_id] + 6000
          THEN /\ r_ret' = [kind |-> "AgentRateLimited"]
               /\ UNCHANGED <<r_logger, r_status, r_orch, r_rate, r_idem, r_proposed>>
          ELSE IF logged.kind # "Ok"
          THEN /\ r_ret' = [kind |-> "InternalError"]
               /\ r_rate' = Put(r_rate, agent_id, current_time_ms)
               /\ UNCHANGED <<r_logger, r_status, r_orch, r_idem, r_proposed>>
          ELSE /\ r_ret' = [kind |-> "Ok", action_id |-> action_id]
               /\ r_rate' = Put(r_rate, agent_id, current_time_ms)
               /\ r_logger' = logged.logger
               /\ r_status' = Put(r_status, action_id, "Pending")
               /\ r_orch' = Put(r_orch, action_id, [kind |-> "Logged"])
               /\ r_idem' = Put(r_idem, key, action_id)
               /\ r_proposed' = r_proposed \cup {action_id}
    /\ UNCHANGED <<r_pc, r_engine, r_wallet_key, r_cleared, r_sign_asked,
                   r_submit_asked, r_updates>>
    /\ RuntimeKeeps

get_action_status(action_id) ==
    IF action_id \in DOMAIN r_status THEN r_status[action_id] ELSE "Failed"

KnownIds == DOMAIN r_status \cup {ForeignId}

UpdateActionStatus(action_id, status) ==
    /\ r_pc = "running"
    /\ r_updates < MaxUpdates
    /\ r_updates' = r_updates + 1
    /\ r_status' = Put(r_status, action_id, status)
    /\ r_ret' = [kind |-> "unit"]
    /\ UNCHANGED <<r_pc, r_engine, r_wallet_key, r_logger, r_orch, r_rate, r_idem,
                   r_proposed, r_cleared, r_sign_asked, r_submit_asked>>
    /\ RuntimeKeeps

LifecyclePending(action_id) ==
    LET evaluation == evaluate_chain(r_engine, get_events_range(r_logger, 0, 100),
                                     get_current_root(r_logger))
    IN IF evaluation.kind # "Ok"
       THEN /\ r_ret' = [kind |-> "InternalError"]
            /\ UNCHANGED <<r_status, r_orch, r_cleared>>
       ELSE IF evaluation.compliant
       THEN /\ r_orch' = Put(r_orch, action_id,
                             [kind |-> "PolicyEvaluated",
                              risk_tier |-> evaluation.risk_tier])
            /\ r_status' = Put(r_status, action_id, "Compliant")
            /\ r_cleared' = r_cleared \cup {action_id}
            /\ r_ret' = [kind |-> "Ok"]
       ELSE /\ r_status' = Put(r_status, action_id, "Rejected")
            /\ r_ret' = [kind |-> "Ok"]
            /\ UNCHANGED <<r_orch, r_cleared>>

LifecycleCompliant(action_id) ==
    IF action_id \in DOMAIN r_orch /\ r_orch[action_id].kind = "PolicyEvaluated"
    THEN LET threshold == to_threshold(r_orch[action_id].risk_tier)
         IN /\ r_sign_asked' = r_sign_asked \cup {action_id}
            /\ IF collect_signatures(threshold) # "Ok"
               THEN /\ r_orch' = Put(r_orch, action_id, [kind |-> "SignaturesRequested"])
                    /\ r_ret' = [kind |-> "InternalError"]
                    /\ UNCHANGED r_status
               ELSE /\ r_orch' = Put(r_orch, action_id, [kind |-> "ProofGenerated"])
                    /\ r_status' = Put(r_status, action_id, "Signed")
                    /\ r_ret' = [kind |-> "Ok"]
    ELSE /\ r_ret' = [kind |-> "Ok"]
         /\ UNCHANGED <<r_status, r_orch, r_sign_asked>>

LifecycleSigned_confirms(action_id) ==
    /\ r_submit_asked' = r_submit_asked \cup {action_id}
    /\ IF submit_unified_proof(r_wallet_key) # "Ok"
       THEN /\ r_ret' = [kind |-> "InternalError"]
            /\ UNCHANGED <<r_status, r_orch>>
       ELSE /\ r_orch' = Put(r_orch, action_id, [kind |-> "Finalized"])
            /\ r_status' = Put(r_status, action_id, "Confirmed")
            /\ r_ret' = [kind |-> "Ok"]

LifecycleSigned(action_id) ==
    /\ r_submit_asked' = r_submit_asked \cup {action_id}
    /\ IF submit_unified_proof(r_wallet_key) # "Ok"
       THEN /\ r_ret' = [kind |-> "InternalError"]
            /\ UNCHANGED <<r_status, r_orch>>
       ELSE /\ r_orch' = Put(r_orch, action_id, [kind |-> "Submitted"])
            /\ r_status' = Put(r_status, action_id, "Submitted")
            /\ r_ret' = [kind |-> "Ok"]

LifecycleSubmitted(action_id) ==
    /\ r_orch' = Put(r_orch, action_id, [kind |-> "Finalized"])
    /\ r_status' = Put(r_status, action_id, "Confirmed")
    /\ r_ret' = [kind |-> "Ok"]

ProcessActionLifecycle(action_id) ==
    /\ r_pc = "running"
    /\ LET current_status == get_action_status(action_id)
       IN CASE current_status = "Pending" ->
                 LifecyclePending(action_id) /\ UNCHANGED <<r_sign_asked, r_submit_asked>>
            [] current_status = "Compliant" ->
                 LifecycleCompliant(action_id) /\ UNCHANGED <<r_cleared, r_submit_asked>>
            [] current_status = "Signed" ->
                 LifecycleSigned(action_id) /\ UNCHANGED <<r_cleared, r_sign_asked>>
            [] current_status = "Submitted" ->
                 LifecycleSubmitted(action_id)
                   /\ UNCHANGED <<r_cleared, r_sign_asked, r_submit_asked>>
            [] OTHER ->
                 /\ r_ret' = [kind |-> "Ok"]
                 /\ UNCHANGED <<r_status, r_orch, r_cleared, r_sign_asked,
                                r_submit_asked>>
    /\ UNCHANGED <<r_pc, r_engine, r_wallet_key, r_logger, r_rate, r_idem, r_proposed,
                   r_updates>>
    /\ RuntimeKeeps

\* every API call, update_action_status included, with one agent proposing
NextRuntime ==
    \/ \E threshold \in 0..MaxThreshold, wallet_key \in BOOLEAN :
          NewRuntime(threshold, wallet_key)
    \/ \E action_type \in ActionTypes, payload \in Payloads, current_time_ms \in Times :
          ProposeAction(1, action_type, payload, current_time_ms)
    \/ \E action_id \in KnownIds, status \in Statuses :
          UpdateActionStatus(action_id, status)
    \/ \E action_id \in KnownIds : ProcessActionLifecycle(action_id)

SpecRuntime == Init /\ [][NextRuntime]_vars

\* the runtime driven by propose_action and process_action_lifecycle alone
NextLifecycle ==
    \/ \E threshold \in 0..MaxThreshold, wallet_key \in BOOLEAN :
          NewRuntime(threshold, wallet_key)
    \/ \E agent_id \in Agents, action_type \in ActionTypes, payload \in Payloads,
          current_time_ms \in Times :
          ProposeAction(agent_id, action_type, payload, current_time_ms)
    \/ \E action_id \in KnownIds : ProcessActionLifecycle(action_id)

SpecLifecycle == Init /\ [][NextLifecycle]_vars

\* C20: an action id has status Signed, Submitted or Confirmed only if a
\* successful propose_action returned it and a policy evaluation in
\* process_action_lifecycle found it compliant, and nothing else is ever
\* handed to signature collection or to submission.
C20_NoBypass ==
    /\ \A action_id \in DOMAIN r_status :
          r_status[action_id] \in {"Signed", "Submitted", "Confirmed"}
            => action_id \in r_proposed \cap r_cleared
    /\ r_sign_asked \subseteq r_proposed \cap r_cleared
    /\ r_submit_asked \subseteq r_proposed \cap r_cleared

\* the steps of the lifecycle and the statuses it never leaves
LifecycleSteps ==
    {<<"Pending", "Compliant">>, <<"Pending", "Rejected">>, <<"Compliant", "Signed">>,
     <<"Signed", "Submitted">>, <<"Submitted", "Confirmed">>}

FinalStatuses == {"Confirmed", "Rejected", "Failed"}

ChainCompliant ==
    LET evaluation == evaluate_chain(r_engine, get_events_range(r_logger, 0, 100),
                                     get_current_root(r_logger))
    IN evaluation.kind = "Ok" /\ evaluation.compliant

\* C21: with propose_action and process_action_lifecycle as the only calls,
\* the status of an action changes only in a process_action_lifecycle call on
\* it that returns Ok, every such call on an unfinished action moves it one
\* step along Pending -> Compliant -> Signed -> Submitted -> Confirmed, or
\* Pending -> Rejected when the evaluation is non-compliant, a call that
\* returns an error leaves the status as it was, and Confirmed, Rejected and
\* Failed are never left.
C21_LifecycleSteps ==
    [][r_updates = 0 =>
         \A action_id \in DOMAIN r_status :
            LET before == r_status[action_id]
                after == r_status'[action_id]
            IN /\ before # after
                    => /\ <<before, after>> \in LifecycleSteps
                       /\ ProcessActionLifecycle(action_id)
                       /\ r_ret'.kind = "Ok"
                       /\ after = "Compliant" => ChainCompliant
                       /\ after = "Rejected" => ~ChainCompliant
               /\ (ProcessActionLifecycle(action_id) /\ r_ret'.kind = "Ok"
                      /\ before \notin FinalStatuses)
                    => <<before, after>> \in LifecycleSteps
               /\ (ProcessActionLifecycle(action_id) /\ r_ret'.kind # "Ok")
                    => after = before
               /\ before \in FinalStatuses => after = before]_vars

C21_Witness ==
    /\ r_updates = 0
    /\ \E a \in r_proposed : r_status[a] = "Confirmed"
    /\ \E b \in r_proposed : r_status[b] = "Rejected"

\* the events a successful propose_action logged for this agent and payload
LoggedFor(agent_id, payload) ==
    {k \in 1..Len(r_logger.events) :
        /\ r_logger.events[k].agent_id = agent_id
        /\ payload.len <= 4096
        /\ r_logger.events[k].payload_hash = hash_data(PayloadBytes(payload))}

\* C22: once propose_action has succeeded for an agent and a payload, every
\* later propose_action of that agent with that payload, whatever its time and
\* action type, returns the ActionId of the first call and changes nothing: no
\* event is logged, the logger's root and nonce, the rate-limit table, the
\* idempotency cache and every status stay as they were.
C22_Idempotent ==
    [][\A agent_id \in Agents, action_type \in ActionTypes, payload \in Payloads,
          current_time_ms \in Times :
          (ProposeAction(agent_id, action_type, payload, current_time_ms)
             /\ LoggedFor(agent_id, payload) # {})
            => /\ r_ret'.kind = "Ok"
               /\ \A k \in LoggedFor(agent_id, payload) :
                     r_ret'.action_id = ActionIdOf(r_logger.events[k], agent_id)
               /\ UNCHANGED <<r_logger, r_status, r_orch, r_rate, r_idem>>]_vars

\* a later propose_action has returned the id of an action already confirmed
C22_Witness ==
    /\ "action_id" \in DOMAIN r_ret
    /\ r_ret.action_id \in DOMAIN r_status
    /\ r_status[r_ret.action_id] = "Confirmed"

\* ------------------------------------------------- causal logger on its own
MaxEvents == 2

\* u64::MAX is written -1
LogTimes == {0, 400, 1000, -1}
LogTypes == {1}

EventFields ==
    {"version", "nonce", "timestamp", "agent_id", "action_type", "payload_hash",
     "metadata_commitment", "behavioral_fingerprint"}

LoggerKeeps ==
    /\ UNCHANGED <<r_pc, r_engine, r_wallet_key, r_status, r_orch, r_rate, r_idem,
                   r_proposed, r_cleared, r_sign_asked, r_submit_asked, r_updates>>
    /\ RuntimeKeeps

\* logger.log_event(&[1; 32], action_type, &payload, current_time_ms) on a
\* logger made by CausalEventLogger::new
LogEvent(action_type, payload, current_time_ms, overflow_checks) ==
    /\ r_pc = "new"
    /\ r_ret.kind # "panic"
    /\ Len(r_logger.events) < MaxEvents
    /\ LET logged == log_event(r_logger, 1, action_type, payload, current_time_ms,
                               overflow_checks)
       IN /\ r_logger' = logged.logger
          /\ r_ret' = IF logged.kind = "Ok"
                      THEN [kind |-> "Ok", nonce |-> logged.event.nonce]
                      ELSE [kind |-> logged.kind]
    /\ LoggerKeeps

\* verify_event_chain(&events, &logger.get_current_root()) on the events the
\* successful calls returned
VerifyEventChain(overflow_checks) ==
    /\ r_pc = "new"
    /\ r_ret.kind # "panic"
    /\ r_ret' = [kind |-> "verified",
                 out |-> verify_event_chain(r_logger.events, get_current_root(r_logger),
                                            overflow_checks)]
    /\ UNCHANGED r_logger
    /\ LoggerKeeps

\* another value for one field of an event
ChangeField(event, field) ==
    CASE field = "version" -> [event EXCEPT !.version = 2]
      [] field = "nonce" -> [event EXCEPT !.nonce = @ + 1]
      [] field = "timestamp" -> [event EXCEPT !.timestamp = @ + 1]
      [] field = "agent_id" -> [event EXCEPT !.agent_id = @ + 1]
      [] field = "action_type" -> [event EXCEPT !.action_type = 3]
      [] field = "payload_hash" -> [event EXCEPT !.payload_hash = hash_data(<<Byte(0)>>)]
      [] field = "metadata_commitment" ->
           [event EXCEPT !.metadata_commitment = hash_data(<<Byte(0)>>)]
      [] field = "behavioral_fingerprint" ->
           [event EXCEPT !.behavioral_fingerprint = hash_data(<<Byte(0)>>)]

\* the ways to alter a list of events
Tampers(events) ==
    LET n == Len(events)
    IN [kind : {"change"}, i : 1..n, field : EventFields]
         \cup [kind : {"remove", "duplicate"}, i : 1..n]
         \cup {t \in [kind : {"swap"}, i : 1..n, j : 1..n] : t.i < t.j}

TamperEvents(events, t) ==
    CASE t.kind = "change" -> [events EXCEPT ![t.i] = ChangeField(@, t.field)]
      [] t.kind = "remove" ->
           SubSeq(events, 1, t.i - 1) \o SubSeq(events, t.i + 1, Len(events))
      [] t.kind = "duplicate" ->
           SubSeq(events, 1, t.i) \o SubSeq(events, t.i, Len(events))
      [] t.kind = "swap" -> [events EXCEPT ![t.i] = events[t.j], ![t.j] = events[t.i]]

\* verify_event_chain on an altered copy of the logged events
VerifyTampered(t, overflow_checks) ==
    /\ r_pc = "new"
    /\ r_ret.kind # "panic"
    /\ r_ret' = [kind |-> "tampered", tamper |-> t,
                 out |-> verify_event_chain(TamperEvents(r_logger.events, t),
                                            get_current_root(r_logger), overflow_checks)]
    /\ UNCHANGED r_logger
    /\ LoggerKeeps

NextLogger ==
    \/ \E action_type \in LogTypes, payload \in Payloads, current_time_ms \in LogTimes,
          overflow_checks \in BOOLEAN :
          LogEvent(action_type, payload, current_time_ms, overflow_checks)
    \/ \E overflow_checks \in BOOLEAN : VerifyEventChain(overflow_checks)
    \/ \E t \in Tampers(r_logger.events), overflow_checks \in BOOLEAN :
          VerifyTampered(t, overflow_checks)

SpecLogger == Init /\ [][NextLogger]_vars

\* C23: on a fresh logger, after any sequence of log_event calls, the events
\* of the successful calls carry the nonces 1..k in call order, a failed call
\* consumes no nonce, and verify_event_chain on those events and the current
\* root is true.
C23_LoggedChainVerifies ==
    /\ r_logger.last_nonce = Len(r_logger.events)
    /\ \A k \in 1..Len(r_logger.events) : r_logger.events[k].nonce = k
    /\ r_ret.kind = "verified" => r_ret.out = "true"

\* C24: verify_event_chain returns false on every altered list of events:
\* any field of any event changed, an event removed or duplicated, two
\* events swapped.
C24_TamperDetected ==
    r_ret.kind = "tampered" => r_ret.out = "false"

\* ------------------------------------------------------------- bridge hub
be_bytes(v, w) == [k \in 1..w |-> le_bytes(v, w)[w + 1 - k]]

\* SolanaAdapter and EthereumAdapter
encode_proof(adapter, proof) ==
    IF adapter = "solana" THEN to_bytes(proof)
    ELSE be_bytes(Len(proof.proof_bytes), 4) \o proof.proof_bytes

decode_proof(adapter, bytes) ==
    IF adapter = "solana" THEN from_bytes(bytes)
    ELSE IF Len(bytes) < 4 THEN None
    ELSE IF bytes[1] = Byte(WIRE_VERSION) THEN from_bytes(bytes)
    ELSE from_bytes(SubSeq(bytes, 5, Len(bytes)))

translate_proof(source_adapter, dest_adapter, encoded_proof) ==
    LET decoded == decode_proof(source_adapter, encoded_proof)
    IN IF decoded.kind = "Some"
       THEN [kind |-> "Ok", bytes |-> encode_proof(dest_adapter, decoded.proof)]
       ELSE IF decoded.kind = "None" THEN [kind |-> "InvalidInput", bytes |-> <<>>]
       ELSE [kind |-> "panic", bytes |-> <<>>]

\* bodies handed to ZKSNARKProof::new, one of them the serialization of a proof
BridgeBodies ==
    WireBodies \cup {to_bytes(ZKSNARKProof_new(<<Byte(1)>>, 2, ZeroHash))}

\* solana.encode_proof(&ZKSNARKProof::new(body, num_signatures, hash))
EncodeProof(num_signatures, body, hash) ==
    /\ f_call = NoFn
    /\ LET proof == ZKSNARKProof_new(body, num_signatures, hash)
       IN f_call' = [fn |-> "encode_proof", args |-> [proof |-> proof],
                     out |-> encode_proof("solana", proof)]
    /\ FnKeeps

\* BridgeHub::translate_proof(&solana, &ethereum, &sol_encoded)
TranslateProof ==
    /\ f_call.fn = "encode_proof"
    /\ f_call' = [fn |-> "translate_proof",
                  args |-> [proof |-> f_call.args.proof, encoded_proof |-> f_call.out],
                  out |-> translate_proof("solana", "ethereum", f_call.out)]
    /\ FnKeeps

\* ethereum.decode_proof(&eth_encoded)
DecodeTranslated ==
    /\ f_call.fn = "translate_proof"
    /\ f_call.out.kind = "Ok"
    /\ f_call' = [fn |-> "decode_translated",
                  args |-> [proof |-> f_call.args.proof, bytes |-> f_call.out.bytes],
                  out |-> decode_proof("ethereum", f_call.out.bytes)]
    /\ FnKeeps

NextBridge ==
    \/ \E c \in WireCounts, b \in BridgeBodies, h \in WireHashes : EncodeProof(c, b, h)
    \/ TranslateProof
    \/ DecodeTranslated

SpecBridge == Init /\ [][NextBridge]_vars

\* C25: for every proof p, translate_proof from the Solana adapter to the
\* Ethereum adapter on the Solana encoding of p succeeds, and the Ethereum
\* adapter's decode_proof of the translated bytes is a proof with the
\* num_signatures of p.
C25_TranslationKeepsCount ==
    /\ f_call.fn = "translate_proof" => f_call.out.kind = "Ok"
    /\ f_call.fn = "decode_translated"
         => /\ f_call.out.kind = "Some"
            /\ f_call.out.proof.num_signatures = f_call.args.proof.num_signatures

\* C26: whenever aggregate_proofs(sigs, proofs, pk_root, m, pks) returns
\* Ok(proof), whatever the signer indices and whether or not a signer appears
\* more than once, verify(pk_root, m, proof) is true.
C26_AggregatedVerifies ==
    (agg.called /\ agg.result.kind = "Ok")
    => verify(agg.pk_root, agg.msg, agg.result.proof) = "true"

\* ------------------------------------- what verify reads of a proof body
VerifyRoots == {WrongRoot, RandomBytes32(1)}

VerifyCounts == {1, 2, 3}

Fillers == {WrongRoot, RandomBytes32(2)}

Regions == {"commitment", "nonce", "bitmap"}

\* proofs handed to verify: well-formed ones and damaged copies of them
VerifyProofs ==
    LET formed == {ForgedProof(r, m, c) : r \in VerifyRoots, m \in Msgs, c \in VerifyCounts}
    IN formed \cup {Malformed(proof, kind) : proof \in formed, kind \in MalformKinds}

\* body bytes from..from+32 replaced by filler, as far as the body reaches
ReplaceRange(bytes, from, filler) ==
    [k \in 1..Len(bytes) |->
        IF k > from /\ k <= from + HashLen THEN filler[k - from] ELSE bytes[k]]

\* the running commitment (body 3..35) or the nonce commitment (body 67..99)
\* replaced, or the first two bitmap bytes (body 35 and 36) exchanged
Replaced(proof, region, filler) ==
    LET bytes == proof.proof_bytes
    IN CASE region = "commitment" ->
              [proof EXCEPT !.proof_bytes = ReplaceRange(bytes, 3, filler)]
         [] region = "nonce" ->
              [proof EXCEPT !.proof_bytes = ReplaceRange(bytes, 3 + 2 * HashLen, filler)]
         [] region = "bitmap" ->
              IF Len(bytes) < 3 + HashLen + 2 THEN proof
              ELSE [proof EXCEPT !.proof_bytes =
                       [bytes EXCEPT ![3 + HashLen + 1] = bytes[3 + HashLen + 2],
                                     ![3 + HashLen + 2] = bytes[3 + HashLen + 1]]]

\* verify on a proof and on its altered copy
CallVerifyReplaced(pk_root, msg, proof, region, filler) ==
    /\ f_call = NoFn
    /\ LET changed == Replaced(proof, region, filler)
       IN f_call' = [fn |-> "verify_replaced",
                     args |-> [pk_root |-> pk_root, msg |-> msg, proof |-> proof,
                               changed |-> changed, region |-> region],
                     out |-> [before |-> verify(pk_root, msg, proof),
                              after |-> verify(pk_root, msg, changed)]]
    /\ FnKeeps

NextVerifyBytes ==
    \E pk_root \in VerifyRoots, msg \in Msgs, proof \in VerifyProofs, region \in Regions,
       filler \in Fillers :
       CallVerifyReplaced(pk_root, msg, proof, region, filler)

SpecVerifyBytes == Init /\ [][NextVerifyBytes]_vars

\* what the claim lets the result depend on
ByteAt(bytes, i) == IF i <= Len(bytes) THEN bytes[i] ELSE <<>>

Observed(proof) ==
    LET bytes == proof.proof_bytes
    IN [length |-> Len(bytes),
        version |-> ByteAt(bytes, 1),
        header_count |-> <<ByteAt(bytes, 2), ByteAt(bytes, 3)>>,
        num_signatures |-> proof.num_signatures,
        public_inputs_hash |-> proof.public_inputs_hash,
        set_bits |-> IF Len(bytes) >= 3 + 2 * HashLen
                     THEN count_signers_in_bitmap(Slice(bytes, 3 + HashLen, 3 + 2 * HashLen))
                     ELSE 0,
        last |-> IF Len(bytes) >= HashLen
                 THEN Slice(bytes, Len(bytes) - HashLen, Len(bytes))
                 ELSE bytes]

\* C27: for a fixed pk_root and msg the result of verify depends only on the
\* body's length, version byte and header count, on num_signatures and
\* public_inputs_hash, on the number of set bits in body bytes 35..67 and on
\* the last 32 body bytes: two proofs that agree on these get the same result,
\* and replacing the running commitment (body 3..35) or the nonce commitment
\* (body 67..99) never changes it.
C27_VerifyReadsOnly ==
    f_call.fn = "verify_replaced"
    => /\ Observed(f_call.args.changed) = Observed(f_call.args.proof)
            => f_call.out.after = f_call.out.before
       /\ f_call.args.region \in {"commitment", "nonce"}
            => f_call.out.after = f_call.out.before

\* an accepted proof whose nonce commitment was replaced by other bytes
C27_Witness ==
    /\ f_call.fn = "verify_replaced"
    /\ f_call.args.region = "nonce"
    /\ f_call.args.changed # f_call.args.proof
    /\ f_call.out.before = "true"
    /\ f_call.out.after = "true"

\* C28: verify_rotation_proof does not depend on rotation.epoch: two rotation
\* proofs that differ only in their epoch get the same result for the same
\* trusted root, so an accepted rotation stays accepted under any other epoch.
C28_EpochIgnored ==
    f_call.fn = "verify_other_epoch"
    => /\ f_call.args.other.epoch # f_call.args.rotation.epoch
       /\ f_call.out.after = f_call.out.before

C28_Witness ==
    /\ f_call.fn = "verify_other_epoch"
    /\ f_call.args.rotation.epoch = 1
    /\ f_call.args.other.epoch = 0
    /\ f_call.out.before = "true"
    /\ f_call.out.after = "true"

\* ------------------------------------------------ propose_action on its own
ProposePayloads == {Payload(1, 1), Payload(2, 1), Payload(1, 4097)}

\* milliseconds; the logger gets them as seconds
ProposeTimes == {1000, 8000, 2000000}

NextPropose ==
    \/ \E threshold \in 0..MaxThreshold, wallet_key \in BOOLEAN :
          NewRuntime(threshold, wallet_key)
    \/ \E agent_id \in Agents, action_type \in ActionTypes, payload \in ProposePayloads,
          current_time_ms \in ProposeTimes :
          ProposeAction(agent_id, action_type, payload, current_time_ms)

SpecPropose == Init /\ [][NextPropose]_vars

ProposeErrors == {"PayloadTooLarge", "InvalidActionType", "AgentRateLimited",
                  "InternalError"}

\* C29: whenever propose_action returns an error (PayloadTooLarge,
\* InvalidActionType, AgentRateLimited, or InternalError from the logger) the
\* runtime is as it was before the call: rate-limit table, idempotency cache,
\* action statuses and the logger's nonce, timestamp and root are unchanged.
C29_ErrorKeepsState ==
    [][(/\ \E agent_id \in Agents, action_type \in ActionTypes,
              payload \in ProposePayloads, current_time_ms \in ProposeTimes :
              ProposeAction(agent_id, action_type, payload, current_time_ms)
        /\ r_ret'.kind \in ProposeErrors)
       => UNCHANGED <<r_rate, r_idem, r_status, r_orch, r_logger>>]_vars

\* ------------------------------------------ check_rate_limit, interleaved
MAX_TXS_PER_MINUTE == 10

MaxCalls == 12
MaxClock == 1

RateLimitKeeps == UNCHANGED <<mvars, pvars, fvars, kvars, rvars>>

\* 60 seconds pass
Tick ==
    /\ t_clock < MaxClock
    /\ t_clock' = t_clock + 1
    /\ UNCHANGED <<TX_COUNT, LAST_RESET, t_lock, t_pc, t_now, t_ret, t_calls,
                   t_oks_window, t_oks_store>>
    /\ RateLimitKeeps

\* lock LAST_RESET, read the clock, compare; drop(guard) where the window is
\* over, and keep the guard to the end of the call where it is not
Enter(th) ==
    /\ t_pc[th] = "idle"
    /\ t_calls < MaxCalls
    /\ t_lock = 0
    /\ t_calls' = t_calls + 1
    /\ t_now' = [t_now EXCEPT ![th] = t_clock]
    /\ IF t_clock - LAST_RESET >= 1
       THEN /\ t_pc' = [t_pc EXCEPT ![th] = "store"]
            /\ UNCHANGED t_lock
       ELSE /\ t_pc' = [t_pc EXCEPT ![th] = "fetch_add"]
            /\ t_lock' = th
    /\ UNCHANGED <<TX_COUNT, LAST_RESET, t_clock, t_ret, t_oks_window, t_oks_store>>
    /\ RateLimitKeeps

\* TX_COUNT.store(0, SeqCst)
StoreZero(th) ==
    /\ t_pc[th] = "store"
    /\ TX_COUNT' = 0
    /\ t_oks_store' = 0
    /\ t_pc' = [t_pc EXCEPT ![th] = "write_reset"]
    /\ UNCHANGED <<LAST_RESET, t_clock, t_lock, t_now, t_ret, t_calls, t_oks_window>>
    /\ RateLimitKeeps

\* *LAST_RESET.get().unwrap().lock().unwrap() = now
WriteReset(th) ==
    /\ t_pc[th] = "write_reset"
    /\ t_lock = 0
    /\ LAST_RESET' = t_now[th]
    /\ t_oks_window' = 0
    /\ t_pc' = [t_pc EXCEPT ![th] = "fetch_add"]
    /\ UNCHANGED <<TX_COUNT, t_clock, t_lock, t_now, t_ret, t_calls, t_oks_store>>
    /\ RateLimitKeeps

\* TX_COUNT.fetch_add(1, SeqCst) and the comparison of what it returned
FetchAdd(th) ==
    /\ t_pc[th] = "fetch_add"
    /\ TX_COUNT' = TX_COUNT + 1
    /\ LET ok == ~(TX_COUNT >= MAX_TXS_PER_MINUTE)
       IN /\ t_ret' = [t_ret EXCEPT ![th] = IF ok THEN "Ok" ELSE "RateLimitExceeded"]
          /\ t_oks_window' = IF ok THEN t_oks_window + 1 ELSE t_oks_window
          /\ t_oks_store' = IF ok THEN t_oks_store + 1 ELSE t_oks_store
    /\ t_pc' = [t_pc EXCEPT ![th] = "return"]
    /\ UNCHANGED <<LAST_RESET, t_clock, t_lock, t_now, t_calls>>
    /\ RateLimitKeeps

\* the call returns; a guard still held is dropped
Return(th) ==
    /\ t_pc[th] = "return"
    /\ t_lock' = IF t_lock = th THEN 0 ELSE t_lock
    /\ t_pc' = [t_pc EXCEPT ![th] = "idle"]
    /\ UNCHANGED <<TX_COUNT, LAST_RESET, t_clock, t_now, t_ret, t_calls,
                   t_oks_window, t_oks_store>>
    /\ RateLimitKeeps

NextRateLimit ==
    \/ Tick
    \/ \E th \in Threads : Enter(th)
    \/ \E th \in Threads : StoreZero(th)
    \/ \E th \in Threads : WriteReset(th)
    \/ \E th \in Threads : FetchAdd(th)
    \/ \E th \in Threads : Return(th)

SpecRateLimit == Init /\ [][NextRateLimit]_vars

\* C30: for any interleaving of concurrent check_rate_limit callers sharing
\* TX_COUNT and LAST_RESET, at most MAX_TXS_PER_MINUTE calls get Ok between
\* two consecutive resets of the 60-second window; every further call in that
\* window gets RateLimitExceeded.
C30_WindowLimit ==
    t_oks_window <= MAX_TXS_PER_MINUTE


====
